---------------------------- MODULE Spec2Model ----------------------------
(***************************************************************************)
(* A model of lib/registry-client-v2.js: the Docker Registry API v2 client *)
(* (RegistryClientV2), its login state machine, the manifest checks of     *)
(* getManifest and the redirect-following blob transport _headOrGetBlob.   *)
(*                                                                         *)
(* One RegistryClientV2 instance is modelled.  Every operation started on  *)
(* it is a record of `ops'; node's single-threaded event loop is modelled  *)
(* by one action per callback: an action runs a callback to completion,    *)
(* and the suspension points are the HTTP round trips and the setImmediate *)
(* between two stages of a vasync pipeline.                                *)
(***************************************************************************)
EXTENDS Naturals, Integers, Sequences, FiniteSets, TLC

\* ------------------------------------------------------------------ bounds

\* Operations started on the client during one behaviour of Spec.
MaxOps == 2
\* Calls of close() during one behaviour.
MaxCloses == 1
\* Signatures of a manifest in SpecManifest.
MaxSigs == 2
\* Length of a raw manifest body in SpecManifest.
MaxBody == 2
\* Bytes a blob stream receives in SpecStream.
MaxBytes == 2

\* ------------------------------------------------------- program constants

\* A budget two larger than the code's.
MutMAX_NUM_REDIRS == 3 + 2

\* var MAX_NUM_REDIRS = 3;
MAX_NUM_REDIRS == 3

\* ------------------------------------------------------------- JS values

\* undefined, null and the empty string are all falsy where the code tests
\* them; "" stands for an absent string.
Absent == ""

Truthy(s) == s # Absent

\* A value of the Authorization header; scheme "none" is `undefined'.
NoHeader == [scheme |-> "none", cred |-> Absent]

\* Buffer(username + ':' + password).toString('base64'): the encoding is kept
\* symbolic, an injective function of the two strings that is not the identity.
Base64(s) == "b64<" \o s \o ">"

_basicAuthHeader(username, password) ==
    [scheme |-> "Basic", cred |-> Base64(username \o ":" \o password)]

\* this._authInfo before any login (null), and the authInfo objects login builds.
NullAuthInfo == [type |-> "null", username |-> Absent, password |-> Absent, token |-> Absent]

\* An authInfo of type basic that drops the credentials.
MutBasicAuthInfo(u, p) ==
    [type |-> "basic", username |-> Absent, password |-> Absent, token |-> Absent]

BasicAuthInfo(u, p) == [type |-> "basic", username |-> u, password |-> p, token |-> Absent]

BearerAuthInfo(t) == [type |-> "bearer", username |-> Absent, password |-> Absent, token |-> t]

\* A header built from the username and password alone.
Mut_authHeaderFromAuthInfo(ai) ==
    IF Truthy(ai.username) /\ Truthy(ai.password)
    THEN _basicAuthHeader(ai.username, ai.password)
    ELSE NoHeader

_authHeaderFromAuthInfo(ai) ==
    IF Truthy(ai.token) THEN [scheme |-> "Bearer", cred |-> ai.token]
    ELSE IF Truthy(ai.username) /\ Truthy(ai.password)
         THEN _basicAuthHeader(ai.username, ai.password)
         ELSE NoHeader


\* ------------------------------------------------- WWW-Authenticate, ping

\* A WWW-Authenticate header value.  `present' is false for a response without
\* the header; `parses' is what www-authenticate's parser makes of it.
NoChal == [present |-> FALSE, parses |-> FALSE, scheme |-> Absent,
           realm |-> [scheme |-> Absent, rest |-> Absent], service |-> Absent]

Chal(scheme, realm, service) ==
    [present |-> TRUE, parses |-> TRUE, scheme |-> scheme, realm |-> realm,
     service |-> service]

GarbledChal == [NoChal EXCEPT !.present = TRUE]

\* No challenge is made up for quay.io.
MutQuayChal == NoChal

\* chalHeader = 'Bearer realm="https://quay.io/v2/auth",service="quay.io"'
QuayChal == Chal("Bearer", [scheme |-> "https", rest |-> "quay.io/v2/auth"], "quay.io")

\* A comparison of scheme names that minds the case.
MutToLowerCase(s) == s

\* String.prototype.toLowerCase on the scheme names the model draws.
ToLowerCase(s) ==
    CASE s \in {"Bearer", "BEARER", "bearer"} -> "bearer"
      [] s \in {"Basic", "BASIC", "basic"} -> "basic"
      [] s = "Digest" -> "digest"
      [] OTHER -> s

\* The outcome of GET /v2/ as _afterPing sees it: err is the error name (Absent
\* when the request succeeded), hasRes tells whether a response came at all.
PingOutcome(err, hasRes, statusCode, chal) ==
    [err |-> err, hasRes |-> hasRes, statusCode |-> statusCode, chal |-> chal]

Ping200 == PingOutcome(Absent, TRUE, 200, NoChal)

Ping401(chal) == PingOutcome("UnauthorizedError401", TRUE, 401, chal)

Ping404 == PingOutcome("NotFoundError404", TRUE, 404, NoChal)

PingConnErr == PingOutcome("ConnectError", FALSE, 0, NoChal)

\* opts.pingRes of login: `given' is false when the option is not passed.
NoPingRes == [given |-> FALSE, statusCode |-> 0, chal |-> NoChal]

PingResOf(p) == [given |-> TRUE, statusCode |-> p.statusCode, chal |-> p.chal]

\* ------------------------------------------------------ top-level login

\* The steps of login's pipeline, as the value the pipeline is left with:
\*   "ping"   ensureChalHeader issues a ping and waits for it
\*   "token"  bearerAuth -> _getToken has issued the request `req'
\*   "ok"     the pipeline ended with next(true) or without error
\*   "fail"   the pipeline ended with the error `err'
StepPing == [tag |-> "ping"]

StepOk(authInfo) == [tag |-> "ok", authInfo |-> authInfo]

StepFail(err) == [tag |-> "fail", err |-> err]

StepToken(req) == [tag |-> "token", req |-> req]

\* _getToken up to client.get: the realm's scheme is checked and the request
\* is built from service, scopes and the credentials.
_getToken(o) ==
    IF o.realm.scheme # Absent /\ o.realm.scheme \notin {"http", "https"}
    THEN StepFail("Error:unsupported scheme for WWW-Authenticate realm")
    ELSE StepToken([
             scheme |-> IF o.realm.scheme = Absent
                        THEN (IF o.insecure THEN "http" ELSE "https")
                        ELSE o.realm.scheme,
             rest |-> o.realm.rest,
             service |-> o.service,
             scope |-> o.scopes,
             account |-> o.username,
             authorization |-> IF Truthy(o.username) /\ Truthy(o.password)
                               THEN _basicAuthHeader(o.username, o.password)
                               ELSE NoHeader])

\* The callback of _getToken's client.get.  t.err is the request's error,
\* t.token the body's token field.
AfterToken(t) ==
    IF t.err # Absent THEN StepFail("UnauthorizedError:token auth attempt failed")
    ELSE IF ~Truthy(t.token)
         THEN StepFail("UnauthorizedError:no token in the response")
         ELSE StepOk(BearerAuthInfo(t.token))

\* Stages that take every scheme other than Basic for Bearer.
MutUnknownAuthScheme(chal, pingErr, opts) ==
    IF ~chal.parses THEN StepFail("UnauthorizedError:could not parse WWW-Authenticate")
    ELSE IF ToLowerCase(chal.scheme) = "basic" THEN StepFail(pingErr)
    ELSE _getToken([realm |-> chal.realm, service |-> chal.service,
                    scopes |-> IF Truthy(opts.scope) THEN <<opts.scope>> ELSE <<>>,
                    username |-> opts.username, password |-> opts.password,
                    insecure |-> opts.insecure])

\* Stages whose bearerAuth always passes scopes: [scope].
MutChallengeStages(chal, pingErr, opts) ==
    IF ~chal.parses THEN StepFail("UnauthorizedError:could not parse WWW-Authenticate")
    ELSE IF ToLowerCase(chal.scheme) = "basic" THEN StepFail(pingErr)
    ELSE IF ToLowerCase(chal.scheme) = "bearer"
         THEN _getToken([realm |-> chal.realm, service |-> chal.service,
                         scopes |-> <<opts.scope>>,
                         username |-> opts.username, password |-> opts.password,
                         insecure |-> opts.insecure])
         ELSE StepFail("UnauthorizedError:unsupported auth scheme")

\* parseAuthChallenge, basicAuthFail, bearerAuth and unknownAuthScheme, run
\* on ctx.chalHeader and ctx.pingErr.
ChallengeStages(chal, pingErr, opts) ==
    IF ~chal.parses THEN StepFail("UnauthorizedError:could not parse WWW-Authenticate")
    ELSE IF ToLowerCase(chal.scheme) = "basic" THEN StepFail(pingErr)
    ELSE IF ToLowerCase(chal.scheme) = "bearer"
         THEN _getToken([realm |-> chal.realm, service |-> chal.service,
                         scopes |-> IF Truthy(opts.scope) THEN <<opts.scope>> ELSE <<>>,
                         username |-> opts.username, password |-> opts.password,
                         insecure |-> opts.insecure])
         ELSE StepFail("UnauthorizedError:unsupported auth scheme")

\* An ensureChalHeader that pings whatever opts.pingRes holds.
MutEnsureChalHeader(opts) == StepPing

\* ensureChalHeader before its ping: a pingRes carrying the header saves it.
EnsureChalHeader(opts) ==
    IF opts.pingRes.given /\ opts.pingRes.chal.present
    THEN ChallengeStages(opts.pingRes.chal, opts.pingErr, opts)
    ELSE StepPing

\* The errors made with new errors.UnauthorizedError(...).
UnauthorizedErrors ==
    {"UnauthorizedError:missing WWW-Authenticate header",
     "UnauthorizedError:could not parse WWW-Authenticate",
     "UnauthorizedError:unsupported auth scheme",
     "UnauthorizedError:token auth attempt failed",
     "UnauthorizedError:no token in the response"}

\* A callback that takes every failed ping for a 401.
MutAfterPing(p, opts) ==
    IF p.err = Absent THEN StepOk(BasicAuthInfo(opts.username, opts.password))
    ELSE LET chalHeader == IF ~p.chal.present /\ opts.host = "quay.io"
                           THEN QuayChal ELSE p.chal
         IN  IF ~chalHeader.present
             THEN StepFail("UnauthorizedError:missing WWW-Authenticate header")
             ELSE ChallengeStages(chalHeader, p.err, opts)

\* The callback ensureChalHeader gives to ping.
AfterPing(p, opts) ==
    IF p.err = Absent THEN StepOk(BasicAuthInfo(opts.username, opts.password))
    ELSE IF p.hasRes /\ p.statusCode = 401
         THEN LET chalHeader == IF ~p.chal.present /\ opts.host = "quay.io"
                                THEN QuayChal ELSE p.chal
              IN  IF ~chalHeader.present
                  THEN StepFail("UnauthorizedError:missing WWW-Authenticate header")
                  ELSE ChallengeStages(chalHeader, p.err, opts)
         ELSE StepFail(p.err)


\* ----------------------------------------------------- Docker-Content-Digest

\* A digest string "<algorithm>:<hex>" is kept as the pair of its parts; the
\* hex part is the number the model's hash yields.  A string without ':' is
\* BareDigest, a missing header NoDcd.  Two digests are the same string
\* exactly when the records are equal.
NoDcd == [present |-> FALSE, colon |-> FALSE, algorithm |-> Absent, hex |-> 0]

Digest(algorithm, hex) ==
    [present |-> TRUE, colon |-> TRUE, algorithm |-> algorithm, hex |-> hex]

BareDigest(str) == [present |-> TRUE, colon |-> FALSE, algorithm |-> str, hex |-> 0]

\* The algorithms crypto.createHash knows.
SupportedAlgorithms == {"sha256", "sha512"}

\* _parseDockerContentDigest: ok is false where the code throws BadDigestError.
_parseDockerContentDigest(dcd) ==
    IF ~dcd.present
    THEN [ok |-> FALSE, err |-> "BadDigestError:missing Docker-Content-Digest header"]
    ELSE IF ~dcd.colon
    THEN [ok |-> FALSE, err |-> "BadDigestError:could not parse Docker-Content-Digest header"]
    ELSE IF dcd.algorithm \notin SupportedAlgorithms
    THEN [ok |-> FALSE, err |-> "BadDigestError:Docker-Content-Digest header error"]
    ELSE [ok |-> TRUE, err |-> Absent, raw |-> dcd, algorithm |-> dcd.algorithm,
          expectedDigest |-> dcd.hex]

\* ------------------------------------------------------------ bytes, hash

\* base64url.decode(str): the bytes the base64url text stands for, read as a
\* UTF-8 string.  The texts are those the model draws; an invalid byte (0xFF)
\* becomes U+FFFD.  A string is a sequence of code points.
Base64UrlBytes(str) ==
    CASE str = "Cn0" -> <<10, 125>>
      [] str = "Cn0=" -> <<10, 125>>
      [] str = "fQ" -> <<125>>
      [] str = "_w" -> <<255>>
      [] OTHER -> <<>>

Utf8Decode(bytes) == [k \in 1 .. Len(bytes) |-> IF bytes[k] < 128 THEN bytes[k] ELSE 65533]

Base64UrlDecode(str) == Utf8Decode(Base64UrlBytes(str))

\* new Buffer(string): the UTF-8 bytes of a string.
RECURSIVE Utf8Encode(_)
Utf8Encode(str) ==
    IF str = <<>> THEN <<>>
    ELSE (IF Head(str) < 128 THEN <<Head(str)>> ELSE <<239, 191, 189>>)
         \o Utf8Encode(Tail(str))

\* body.slice(0, end) for end >= 0.
BufferSlice(body, end) == SubSeq(body, 1, IF end < Len(body) THEN end ELSE Len(body))

\* crypto.createHash(algorithm).update(bytes).digest('hex'): a small hash, so
\* that distinct contents can collide as they can for any hash.
RECURSIVE HashHex(_, _)
HashHex(algorithm, bytes) ==
    IF bytes = <<>> THEN (IF algorithm = "sha256" THEN 1 ELSE 2)
    ELSE (HashHex(algorithm, SubSeq(bytes, 1, Len(bytes) - 1)) * 5
          + bytes[Len(bytes)] + 1) % 11

\* -------------------------------------------------------- manifest checks

\* The value JSON.parse gives a key of the protected header: undefined when
\* the key is missing, null, a number, or a string, kept as its decimal
\* reading (<<n>> for a string of digits, <<>> for any other string).
JsUndefined == [type |-> "undefined", num |-> <<>>]

JsNull == [type |-> "null", num |-> <<>>]

JsNumber(n) == [type |-> "number", num |-> <<n>>]

JsString(num) == [type |-> "string", num |-> num]

\* Number(v): <<n>>, or <<>> for NaN.  Number(undefined) is NaN, Number(null)
\* is 0, and a string has its decimal reading.
ToNumber(v) ==
    CASE v.type = "undefined" -> <<>>
      [] v.type = "null" -> <<0>>
      [] OTHER -> v.num

\* isNaN(v)
IsNaN(v) == ToNumber(v) = <<>>

\* A signature of a manifest.  formatLength is the value of that key of the
\* protected header; formatTail is the base64url
\* text (Absent when missing); jwk is "ok", "bad" (jwkToPem throws) or
\* "none"; signedPayload is the byte string the signature was made over.
Sig(alg, chain, jwk, protectedOk, formatLength, formatTail, signedPayload) ==
    [alg |-> alg, chain |-> chain, jwk |-> jwk, protectedOk |-> protectedOk,
     formatLength |-> formatLength, formatTail |-> formatTail,
     signedPayload |-> signedPayload]

\* The decoded manifest_ with the raw body and the response's digest header.
Manifest(schemaVersion, nLayers, nHistory, hasSignatures, signatures, body, dcd) ==
    [schemaVersion |-> schemaVersion, nLayers |-> nLayers, nHistory |-> nHistory,
     hasSignatures |-> hasSignatures, signatures |-> signatures,
     body |-> body, dcd |-> dcd]

NoManifest == Manifest(0, 0, 0, FALSE, <<>>, <<>>, NoDcd)

JwsFail(err) == [ok |-> FALSE, err |-> err]

\* The errors made with new restify.InvalidContentError(...) in
\* _jwsFromManifest.
JwsInvalidContentErrors ==
    {"InvalidContentError:could not parse protected",
     "InvalidContentError:invalid formatLength",
     "InvalidContentError:conflicting formatLength",
     "InvalidContentError:missing formatTail",
     "InvalidContentError:conflicting formatTail",
     "InvalidContentError:error in header.jwk"}

\* The loop of _jwsFromManifest from signature k on; fl and ft hold
\* formatLength and formatTail (<<>> while undefined).
RECURSIVE JwsLoop(_, _, _, _)
JwsLoop(sigs, k, fl, ft) ==
    IF k > Len(sigs) THEN [ok |-> TRUE, err |-> Absent, fl |-> fl, ft |-> ft]
    ELSE LET sig == sigs[k]
             tail == Base64UrlDecode(sig.formatTail)
         IN  IF ~sig.protectedOk
             THEN JwsFail("InvalidContentError:could not parse protected")
             ELSE IF IsNaN(sig.formatLength)
             THEN JwsFail("InvalidContentError:invalid formatLength")
             ELSE IF fl # <<>> /\ sig.formatLength # fl[1]
             THEN JwsFail("InvalidContentError:conflicting formatLength")
             ELSE IF ~Truthy(sig.formatTail)
             THEN JwsFail("InvalidContentError:missing formatTail")
             ELSE IF ft # <<>> /\ <<tail>> # ft
             THEN JwsFail("InvalidContentError:conflicting formatTail")
             ELSE IF sig.jwk = "bad"
             THEN JwsFail("InvalidContentError:error in header.jwk")
             ELSE JwsLoop(sigs, k + 1, <<sig.formatLength>>, <<tail>>)

\* An extraction for which new Buffer(undefined) is an empty buffer: without
\* a signature the payload is the whole body.
Mut_jwsFromManifest(m) ==
    LET r == JwsLoop(m.signatures, 1, <<>>, <<>>)
    IN  IF ~r.ok THEN r
        ELSE IF r.ft = <<>>
        THEN [ok |-> TRUE, err |-> Absent, signatures |-> m.signatures,
              payload |-> m.body]
        ELSE [ok |-> TRUE, err |-> Absent, signatures |-> m.signatures,
              payload |-> BufferSlice(m.body, ToNumber(r.fl[1])[1])
                          \o Utf8Encode(r.ft[1])]

\* _jwsFromManifest(manifest, body).  Without a signatures array the loop
\* header throws a TypeError, and with an empty one new Buffer(undefined) does.
_jwsFromManifest(m) ==
    IF ~m.hasSignatures THEN JwsFail("TypeError:signatures is undefined")
    ELSE LET r == JwsLoop(m.signatures, 1, <<>>, <<>>)
         IN  IF ~r.ok THEN r
             ELSE IF r.ft = <<>> THEN JwsFail("TypeError:new Buffer(undefined)")
             ELSE [ok |-> TRUE, err |-> Absent, signatures |-> m.signatures,
                   payload |-> BufferSlice(m.body, ToNumber(r.fl[1])[1])
                               \o Utf8Encode(r.ft[1])]

\* A verification that, like the one of a blob stream, lets a response
\* without the header pass.
Mut_verifyManifestDockerContentDigest(dcd, jws) ==
    LET dcdInfo == _parseDockerContentDigest(dcd)
    IN  IF ~dcd.present THEN Absent
        ELSE IF ~dcdInfo.ok THEN dcdInfo.err
        ELSE IF dcdInfo.expectedDigest # HashHex(dcdInfo.algorithm, jws.payload)
             THEN "BadDigestError:Docker-Content-Digest"
             ELSE Absent

\* _verifyManifestDockerContentDigest(res, jws): Absent, or the error thrown.
_verifyManifestDockerContentDigest(dcd, jws) ==
    LET dcdInfo == _parseDockerContentDigest(dcd)
    IN  IF ~dcdInfo.ok THEN dcdInfo.err
        ELSE IF dcdInfo.expectedDigest # HashHex(dcdInfo.algorithm, jws.payload)
             THEN "BadDigestError:Docker-Content-Digest"
             ELSE Absent

\* mod_jws.verify(jwsCompact, alg, jwk): the signature verifies when the key
\* is usable and the signature was made over this payload.
JwsVerify(sig, payload) == sig.jwk = "ok" /\ sig.signedPayload = payload

\* A deny-list that denies nothing.
MutdisallowedAlgs == {}

\* var disallowedAlgs = ['none'];
disallowedAlgs == {"none"}

\* _verifyJws(jws) from signature k on: Absent, or the error thrown.
RECURSIVE VerifyLoop(_, _)
VerifyLoop(jws, k) ==
    IF k > Len(jws.signatures) THEN Absent
    ELSE LET jwsSig == jws.signatures[k]
         IN  IF jwsSig.alg \in disallowedAlgs
             THEN "ManifestVerificationError:disallowed JWS signature algorithm"
             ELSE IF jwsSig.chain
             THEN "InternalError:JWS verification with a cert chain is not implemented"
             ELSE IF ~JwsVerify(jwsSig, jws.payload)
             THEN "ManifestVerificationError:JWS signature failed verification"
             ELSE VerifyLoop(jws, k + 1)

\* A _verifyJws that verifies nothing.
Mut_verifyJws(jws) == Absent

_verifyJws(jws) == VerifyLoop(jws, 1)

\* The three schema tests of _afterCall: Absent, or the error thrown.
SchemaCheck(m) ==
    IF m.schemaVersion # 1 THEN "InvalidContentError:unsupported schema version"
    ELSE IF m.nLayers # m.nHistory
    THEN "InvalidContentError:length of history not equal to number of layers"
    ELSE IF m.nLayers = 0 THEN "InvalidContentError:no layers"
    ELSE Absent

\* Checks that verify the signatures before the digest.
MutManifestChecks(m) ==
    LET jws == _jwsFromManifest(m)
        dcdErr == _verifyManifestDockerContentDigest(m.dcd, jws)
        jwsErr == _verifyJws(jws)
        schemaErr == SchemaCheck(m)
    IN  IF ~jws.ok THEN [how |-> "next", err |-> jws.err]
        ELSE IF jwsErr # Absent THEN [how |-> "next", err |-> jwsErr]
        ELSE IF dcdErr # Absent THEN [how |-> "next", err |-> dcdErr]
        ELSE IF schemaErr # Absent THEN [how |-> "throw", err |-> schemaErr]
        ELSE [how |-> "ok", err |-> Absent]

\* _afterCall of getManifest on a response without HTTP error: how the
\* callback ends.  "next" is next(verifyErr), "throw" an exception thrown out
\* of the callback, "ok" the manifest handed to next().
ManifestChecks(m) ==
    LET jws == _jwsFromManifest(m)
        dcdErr == _verifyManifestDockerContentDigest(m.dcd, jws)
        jwsErr == _verifyJws(jws)
        schemaErr == SchemaCheck(m)
    IN  IF ~jws.ok THEN [how |-> "next", err |-> jws.err]
        ELSE IF dcdErr # Absent THEN [how |-> "next", err |-> dcdErr]
        ELSE IF jwsErr # Absent THEN [how |-> "next", err |-> jwsErr]
        ELSE IF schemaErr # Absent THEN [how |-> "throw", err |-> schemaErr]
        ELSE [how |-> "ok", err |-> Absent]

\* ------------------------------------------------------------------ state

VARIABLES
    ctorOpts,         \* the opts RegistryClientV2 was constructed with
    _loggedIn,        \* this._loggedIn
    _authInfo,        \* this._authInfo
    _headers,         \* this._headers.authorization
    _clientsToClose,  \* this._clientsToClose: the ids of the clients in the array,
                      \* whose order close() does not depend on
    __api,            \* TRUE once the _api getter has created this.__api
    openClients,      \* the HTTP clients created and not yet closed
    nCloses,          \* the number of calls of close() so far
    succeeded,        \* the authInfo of every login that has succeeded
    ops               \* the operations started on the client

vars == <<ctorOpts, _loggedIn, _authInfo, _headers, _clientsToClose, __api,
          openClients, nCloses, succeeded, ops>>

OpIds == 1 .. MaxOps

\* Operations that run doLogin first, and the two that never log in.
LoginKinds == {"login", "listTags", "getManifest", "headBlob", "createBlobReadStream"}

ApiKinds == {"listTags", "getManifest"}

BlobKinds == {"headBlob", "createBlobReadStream"}

PingKinds == {"ping", "supportsV2"}

\* A request of a call stage: its endpoint ("tags", "manifests", "blobs"),
\* where it is sent and the Authorization header it carries.
Req(endpoint, url, authorization) ==
    [endpoint |-> endpoint, url |-> url, authorization |-> authorization]

NoReq == Req("none", Absent, NoHeader)

\* The final response of a blob request as a stream: `received' is what has
\* come off the wire, `buffered' what pauseStream holds back, numBytes and
\* hashed what the 'data' handler of createBlobReadStream has counted and fed
\* to the hash, `emitted' the errors emitted on the stream.
NoStream ==
    [open |-> FALSE, paused |-> FALSE, listening |-> FALSE, resumed |-> FALSE,
     received |-> <<>>, wireEnded |-> FALSE,
     buffered |-> <<>>, endBuffered |-> FALSE,
     numBytes |-> 0, hashed |-> <<>>, ended |-> FALSE, emitted |-> {}]

\* The opts of login(opts, cb): the credentials, a previous ping's response
\* and error, the scope, and the Host header the index name leads to.
LoginFnOpts(username, password, a, scope, insecure, host) ==
    [username |-> username, password |-> password,
     pingRes |-> a.pingRes, pingErr |-> a.pingErr,
     scope |-> scope, insecure |-> insecure, host |-> host]

NoOpts ==
    LoginFnOpts(Absent, Absent, [pingRes |-> NoPingRes, pingErr |-> Absent],
                Absent, FALSE, Absent)

\* An operation that has not been started.
IdleOp ==
    [kind |-> "none", pc |-> "idle",
     pingRes |-> NoPingRes, pingErr |-> Absent,
     afterClose |-> FALSE,   \* started after close()
     afterLogin |-> FALSE,   \* its login was called after a login had succeeded
     tokenReq |-> <<>>,      \* the token request in flight
     req |-> NoReq,          \* the latest request of its call stage
     digest |-> NoDcd,       \* opts.digest of a blob operation
     manifest |-> NoManifest, \* the manifest_ and body getManifest received
     numRedirs |-> 0, ress |-> <<>>,
     cbRess |-> FALSE,       \* the callback was handed the response chain
     pingCb |-> <<>>,        \* what the callback of its ping() was called with
     tokenCb |-> <<>>,       \* what the token realm answered its login
     stream |-> NoStream,    \* the final response of a blob request
     opts |-> NoOpts,        \* the opts of a direct call of login(opts, cb)
     nPings |-> 0,           \* the pings its login has made
     nTokenReqs |-> 0,       \* the calls of _getToken that issued a request
     authInfo |-> NullAuthInfo, \* result.authInfo handed to the caller of login()
     errRes |-> <<>>,        \* the response its call stage failed with
     errMessage |-> Absent,  \* err.message of the error handed to its callback
     nCb |-> 0, err |-> Absent, result |-> Absent]

\* Client ids: the shared API client, and per operation the clients of its
\* ping, its token fetch and each hop of its blob request.
ApiClient == <<0, "api">>

HopName(n) == CASE n = 1 -> "hop1" [] n = 2 -> "hop2" [] n = 3 -> "hop3"
                [] n = 4 -> "hop4" [] n = 5 -> "hop5" [] OTHER -> "hopN"

\* The opts regLogin hands to the top-level login.
LoginOpts(o) ==
    [username |-> ctorOpts.username, password |-> ctorOpts.password,
     pingRes |-> o.pingRes, pingErr |-> o.pingErr,
     scope |-> "repository:" \o ctorOpts.remoteName \o ":pull",
     insecure |-> ctorOpts.insecure, host |-> ctorOpts.host]

\* The opts the login pipeline of operation o runs on.
OptsOf(o) == IF o.kind = "exports.login" THEN o.opts ELSE LoginOpts(o)

\* The constructor: nothing is logged in, and the Authorization header is
\* built from opts.token, opts.username and opts.password.
InitClient(C) ==
    /\ ctorOpts \in C
    /\ _loggedIn = FALSE
    /\ _authInfo = NullAuthInfo
    /\ _headers = _authHeaderFromAuthInfo(
           [type |-> "ctor", token |-> ctorOpts.token,
            username |-> ctorOpts.username, password |-> ctorOpts.password])
    /\ _clientsToClose = {}
    /\ __api = FALSE
    /\ openClients = {}
    /\ nCloses = 0
    /\ succeeded = {}
    /\ ops = [i \in OpIds |-> IdleOp]

CtorOpts(u, p, t, host) ==
    [username |-> u, password |-> p, token |-> t, host |-> host,
     insecure |-> FALSE, remoteName |-> "library/busybox"]

\* ------------------------------------------- RegistryClientV2.prototype.login

\* A login that never takes the early return.
MutAlreadyLoggedIn == FALSE

\* if (this._loggedIn) { return cb(); }
AlreadyLoggedIn == _loggedIn

\* A callback that logs the client out when login fails.
MutLoginCallbackClears(st, step) ==
    IF step.tag = "ok"
    THEN [loggedIn |-> TRUE, authInfo |-> step.authInfo,
          authorization |-> _authHeaderFromAuthInfo(step.authInfo)]
    ELSE [loggedIn |-> FALSE, authInfo |-> NullAuthInfo, authorization |-> NoHeader]

\* A callback that leaves the Authorization header as it was.
MutLoginCallback(st, step) ==
    IF step.tag = "ok"
    THEN [loggedIn |-> TRUE, authInfo |-> step.authInfo, authorization |-> st.authorization]
    ELSE st

\* The callback regLogin gives to login: on success the three cached fields
\* are set together; on error they are left alone.  st is the cached state.
LoginCallback(st, step) ==
    IF step.tag = "ok"
    THEN [loggedIn |-> TRUE, authInfo |-> step.authInfo,
          authorization |-> _authHeaderFromAuthInfo(step.authInfo)]
    ELSE st

Cached == [loggedIn |-> _loggedIn, authInfo |-> _authInfo, authorization |-> _headers]

\* A pipeline that goes on to its call stage whatever doLogin's error.
MutAfterLogin(o, err) ==
    IF o.kind = "login"
    THEN [o EXCEPT !.pc = "done", !.err = err, !.nCb = @ + 1, !.tokenReq = <<>>]
    ELSE [o EXCEPT !.pc = "call", !.tokenReq = <<>>]

\* What cb(err) of regLogin does to the operation o that called it: login
\* itself is done; a pipeline ends on an error and otherwise reaches its
\* call stage after a setImmediate.
AfterLogin(o, err) ==
    IF o.kind = "login"
    THEN [o EXCEPT !.pc = "done", !.err = err, !.nCb = @ + 1, !.tokenReq = <<>>]
    ELSE IF err # Absent
         THEN [o EXCEPT !.pc = "done", !.err = err, !.nCb = @ + 1, !.tokenReq = <<>>]
         ELSE [o EXCEPT !.pc = "call", !.tokenReq = <<>>]

\* A final callback that hands the early-abort marker on as the error.
MutLoginFnCallback(o, step) ==
    IF step.tag = "ok"
    THEN [o EXCEPT !.pc = "done", !.nCb = @ + 1, !.err = "true"]
    ELSE [o EXCEPT !.pc = "done", !.nCb = @ + 1, !.err = step.err]

\* The final callback of login's pipeline for a caller of login(opts, cb):
\* cb(err), or cb(null, {status: 'Login Succeeded', authInfo: authInfo}).
LoginFnCallback(o, step) ==
    IF step.tag = "ok"
    THEN [o EXCEPT !.pc = "done", !.nCb = @ + 1, !.result = "Login Succeeded",
                   !.authInfo = step.authInfo]
    ELSE [o EXCEPT !.pc = "done", !.nCb = @ + 1, !.err = step.err]

\* The login pipeline of operation o has reached `step'.
LoginStep(i, o, step) ==
    CASE step.tag = "ping" ->
           /\ ops' = [ops EXCEPT ![i] = [o EXCEPT !.pc = "ping",
                                                   !.nPings = @ + 1]]
           /\ openClients' = openClients \cup {<<i, "ping">>}
           /\ UNCHANGED <<_loggedIn, _authInfo, _headers, succeeded>>
      [] step.tag = "token" ->
           /\ ops' = [ops EXCEPT ![i] = [o EXCEPT !.pc = "token",
                                                   !.tokenReq = <<step.req>>,
                                                   !.nTokenReqs = @ + 1]]
           /\ openClients' = (openClients \ {<<i, "ping">>}) \cup {<<i, "token">>}
           /\ UNCHANGED <<_loggedIn, _authInfo, _headers, succeeded>>
      [] step.tag \in {"ok", "fail"} /\ o.kind = "exports.login" ->
           /\ ops' = [ops EXCEPT ![i] = LoginFnCallback(o, step)]
           /\ openClients' = openClients \ {<<i, "ping">>, <<i, "token">>}
           /\ UNCHANGED <<_loggedIn, _authInfo, _headers, succeeded>>
      [] OTHER ->
           LET st == LoginCallback(Cached, step)
               err == IF step.tag = "ok" THEN Absent ELSE step.err
           IN  /\ _loggedIn' = st.loggedIn
               /\ _authInfo' = st.authInfo
               /\ _headers' = st.authorization
               /\ succeeded' = IF step.tag = "ok"
                               THEN succeeded \cup {step.authInfo} ELSE succeeded
               /\ openClients' = openClients \ {<<i, "ping">>, <<i, "token">>}
               /\ ops' = [ops EXCEPT ![i] = AfterLogin(o, err)]

\* regLogin, called by operation o.
RegLogin(i, o) ==
    LET o1 == [o EXCEPT !.afterLogin = succeeded # {}]
    IN  IF AlreadyLoggedIn
        THEN /\ ops' = [ops EXCEPT ![i] = AfterLogin(o1, Absent)]
             /\ UNCHANGED <<_loggedIn, _authInfo, _headers, succeeded, openClients>>
        ELSE LoginStep(i, o1, EnsureChalHeader(LoginOpts(o1)))


\* ------------------------------------------------------------ _headOrGetBlob

\* A response of the blob endpoint or of a redirect target, as the 'result'
\* event delivers it: err is the HTTP error restify makes of a status >= 400.
\* location tells whether the response has a Location header.
Res(err, statusCode, dcd, cLen) ==
    [err |-> err, statusCode |-> statusCode, dcd |-> dcd, cLen |-> cLen,
     location |-> TRUE]

\* A redirect without a Location header.
BareRedirect == [Res(Absent, 302, NoDcd, <<>>) EXCEPT !.location = FALSE]

\* mod_url.parse(res.headers.location): url.parse throws a TypeError when it
\* is given undefined; Absent when the header is there.
ParseLocation(res) ==
    IF res.location THEN Absent ELSE "TypeError:Parameter 'url' must be a string"

\* if (res.statusCode === 302 || res.statusCode === 307)
IsRedirect(statusCode) == statusCode \in {302, 307}

\* A redirect that forwards the client's headers.
MutRedirectHeaders(h) == h

\* The headers makeReq is given for a redirect target: none.
RedirectHeaders(h) == NoHeader

\* A createBlobReadStream that reads the digest header of the last response.
MutDcdHeaderOf(ress) == ress[Len(ress)].dcd

\* var dcdHeader = ress[0].headers['docker-content-digest'];
DcdHeaderOf(ress) == ress[1].dcd

\* The callback createBlobReadStream gives to _headOrGetBlob, up to its own
\* cb: the digest header of the FIRST response is checked against opts.digest.
CreateBlobReadStreamCb(o, err) ==
    IF err # Absent
    THEN [o EXCEPT !.pc = "done", !.err = err, !.nCb = @ + 1, !.cbRess = TRUE]
    ELSE LET dcdHeader == DcdHeaderOf(o.ress)
             dcdInfo == _parseDockerContentDigest(dcdHeader)
         IN  IF dcdHeader.present /\ ~dcdInfo.ok
             THEN [o EXCEPT !.pc = "done", !.nCb = @ + 1,
                            !.err = "BadDigestError:could not parse Docker-Content-Digest header"]
             ELSE IF dcdHeader.present /\ dcdInfo.raw # o.digest
             THEN [o EXCEPT !.pc = "done", !.nCb = @ + 1,
                            !.err = "BadDigestError:header does not match given digest"]
             ELSE [o EXCEPT !.pc = "done", !.nCb = @ + 1, !.cbRess = TRUE,
                            !.result = "stream", !.stream.listening = TRUE]

\* The pipeline's final callback, cb(err, ress), and through it the callback
\* of headBlob's or createBlobReadStream's caller.
BlobCb(o, err) ==
    IF o.kind = "headBlob"
    THEN [o EXCEPT !.pc = "done", !.err = err, !.nCb = @ + 1, !.cbRess = TRUE,
                   !.result = IF err = Absent THEN "ress" ELSE Absent]
    ELSE CreateBlobReadStreamCb(o, err)

\* makeReq(reqOpts) of operation i: the redirect budget is tested, then a
\* client is created for reqOpts.url, pushed on _clientsToClose and used.
MakeReq(i, o, url, headers) ==
    IF o.numRedirs >= MAX_NUM_REDIRS
    THEN /\ ops' = [ops EXCEPT ![i] =
                      BlobCb(o, "DownloadError:maximum number of redirects")]
         /\ UNCHANGED <<_clientsToClose, openClients>>
    ELSE LET n == o.numRedirs + 1
             client == <<i, HopName(n)>>
         IN  /\ ops' = [ops EXCEPT ![i] =
                          [o EXCEPT !.pc = "conn", !.numRedirs = n,
                                    !.req = Req("blobs", url, headers)]]
             /\ _clientsToClose' = _clientsToClose \cup {client}
             /\ openClients' = openClients \cup {client}

\* _onConn: the connection failed (next(connErr)) or the request is under way.
BlobConn(i, ConnErrs) ==
    /\ ops[i].pc = "conn"
    /\ \E connErr \in ConnErrs :
          ops' = [ops EXCEPT ![i] = IF connErr # Absent
                                     THEN BlobCb(ops[i], connErr)
                                     ELSE [ops[i] EXCEPT !.pc = "result"]]
    /\ UNCHANGED <<ctorOpts, _loggedIn, _authInfo, _headers, _clientsToClose, __api,
                   openClients, nCloses, succeeded>>

\* A 'result' handler that keeps only the responses without an error.
MutPushRes(ress, res) == IF res.err # Absent THEN ress ELSE Append(ress, res)

\* ress.push(res);
PushRes(ress, res) == Append(ress, res)

\* A pauseStream that does nothing.
MutPauseStream(st) == st

\* common.pauseStream(res): the stream is paused; what arrives from now on is
\* held back until resume() is called.
PauseStream(st) == [st EXCEPT !.paused = TRUE]

\* A 'result' handler that does not pause the response.
MutNonRedirRes(o) ==
    [o EXCEPT !.pc = "drain", !.stream = [NoStream EXCEPT !.open = TRUE]]

\* The else branch of the 'result' handler: common.pauseStream(res);
\* barrier.done('nonRedirRes'), whose 'drain' event comes in a later tick.
NonRedirRes(o) ==
    [o EXCEPT !.pc = "drain", !.stream = PauseStream([NoStream EXCEPT !.open = TRUE])]

\* req.on('result'): the response is pushed on ress; an error ends the call,
\* a 302 or 307 is followed, anything else is paused and drains the barrier.
\* An exception of mod_url.parse leaves the handler, and nothing calls next.
BlobResult(i, Ress) ==
    /\ ops[i].pc = "result"
    /\ \E res \in Ress :
          LET o == [ops[i] EXCEPT !.ress = PushRes(@, res)]
          IN  IF res.err # Absent
              THEN /\ ops' = [ops EXCEPT ![i] = BlobCb(o, res.err)]
                   /\ UNCHANGED <<_clientsToClose, openClients>>
              ELSE IF IsRedirect(res.statusCode) /\ ParseLocation(res) # Absent
              THEN /\ ops' = [ops EXCEPT ![i] =
                                [o EXCEPT !.pc = "thrown", !.err = ParseLocation(res)]]
                   /\ UNCHANGED <<_clientsToClose, openClients>>
              ELSE IF IsRedirect(res.statusCode)
              THEN MakeReq(i, o, "location", RedirectHeaders(_headers))
              ELSE /\ ops' = [ops EXCEPT ![i] = NonRedirRes(o)]
                   /\ UNCHANGED <<_clientsToClose, openClients>>
    /\ UNCHANGED <<ctorOpts, _loggedIn, _authInfo, _headers, __api, nCloses, succeeded>>

\* barrier.on('drain'): _onGetNonRedirResult calls next(null, ress), which
\* runs the pipeline's callback.
BlobDrain(i) ==
    /\ ops[i].pc = "drain"
    /\ ops' = [ops EXCEPT ![i] = BlobCb(ops[i], Absent)]
    /\ UNCHANGED <<ctorOpts, _loggedIn, _authInfo, _headers, _clientsToClose, __api,
                   openClients, nCloses, succeeded>>


\* ------------------------------------- the stream of createBlobReadStream

\* The value of a string of decimal digits.
RECURSIVE DecimalValue(_)
DecimalValue(text) ==
    IF text = <<>> THEN 0
    ELSE 10 * DecimalValue(SubSeq(text, 1, Len(text) - 1)) + text[Len(text)]

\* A Number() for which nothing is a number.
MutNumberOf(header) == [nan |-> TRUE, value |-> 0]

\* Number(stream.headers['content-length']).  A header is <<>> when absent and
\* <<text>> otherwise, text being a sequence of characters: the digits 0..9
\* and other characters (any larger number).  Number(undefined) is NaN,
\* Number('') is 0, a string of digits has its decimal value, and a string
\* with another character is NaN.
NumberOf(header) ==
    IF header = <<>> THEN [nan |-> TRUE, value |-> 0]
    ELSE IF \E k \in 1 .. Len(header[1]) : header[1][k] \notin 0 .. 9
         THEN [nan |-> TRUE, value |-> 0]
         ELSE [nan |-> FALSE, value |-> DecimalValue(header[1])]

\* if (dcdHeader) { dcdInfo = ... }: dcdInfo is set, and with it a hash.
HasherActive(o) == DcdHeaderOf(o.ress).present

\* stream.on('data'): the chunk is counted and, with a dcdInfo, hashed.
Deliver(o, st, chunk) ==
    [st EXCEPT !.numBytes = @ + Len(chunk),
               !.hashed = IF HasherActive(o) THEN @ \o chunk ELSE @]

RECURSIVE DeliverAll(_, _, _)
DeliverAll(o, st, chunks) ==
    IF chunks = <<>> THEN st
    ELSE DeliverAll(o, Deliver(o, st, Head(chunks)), Tail(chunks))

\* An 'end' handler that checks the size only.
MutEndErrors(o, st) ==
    LET cLen == NumberOf(o.ress[Len(o.ress)].cLen)
    IN  IF ~cLen.nan /\ st.numBytes # cLen.value
        THEN {"DownloadError:unexpected downloaded size"}
        ELSE {}

\* stream.on('end'): the errors the handler emits on the stream.
EndErrors(o, st) ==
    LET cLen == NumberOf(o.ress[Len(o.ress)].cLen)
        dcdInfo == _parseDockerContentDigest(DcdHeaderOf(o.ress))
    IN  IF ~cLen.nan /\ st.numBytes # cLen.value
        THEN {"DownloadError:unexpected downloaded size"}
        ELSE IF HasherActive(o)
                /\ dcdInfo.expectedDigest # HashHex(dcdInfo.algorithm, st.hashed)
             THEN {"BadDigestError:Docker-Content-Digest"}
             ELSE {}

OnEnd(o, st) == [st EXCEPT !.ended = TRUE, !.emitted = @ \cup EndErrors(o, st)]

\* The response of a get is live from its 'result' event on; its events
\* matter while the barrier drains and once the stream has been handed over.
StreamLive(o) ==
    /\ o.kind = "createBlobReadStream"
    /\ o.stream.open
    /\ ~o.stream.wireEnded
    /\ (o.pc = "drain" \/ o.result = "stream")

\* A chunk of the body arrives: a paused stream holds it back, a flowing one
\* emits 'data' to the handlers attached, if any.
StreamData(i, Chunks) ==
    /\ StreamLive(ops[i])
    /\ \E chunk \in Chunks :
          /\ Len(ops[i].stream.received) + Len(chunk) <= MaxBytes
          /\ LET o == ops[i]
                 st == [o.stream EXCEPT !.received = @ \o chunk]
             IN  ops' = [ops EXCEPT ![i].stream =
                           IF st.paused THEN [st EXCEPT !.buffered = Append(@, chunk)]
                           ELSE IF st.listening THEN Deliver(o, st, chunk)
                           ELSE st]
    /\ UNCHANGED <<ctorOpts, _loggedIn, _authInfo, _headers, _clientsToClose, __api,
                   openClients, nCloses, succeeded>>

\* The body is complete: a paused stream holds the 'end' back too.
StreamWireEnd(i) ==
    /\ StreamLive(ops[i])
    /\ LET o == ops[i]
           st == [o.stream EXCEPT !.wireEnded = TRUE]
       IN  ops' = [ops EXCEPT ![i].stream =
                     IF st.paused THEN [st EXCEPT !.endBuffered = TRUE]
                     ELSE IF st.listening THEN OnEnd(o, st)
                     ELSE st]
    /\ UNCHANGED <<ctorOpts, _loggedIn, _authInfo, _headers, _clientsToClose, __api,
                   openClients, nCloses, succeeded>>

\* The caller of createBlobReadStream calls stream.resume(): what was held
\* back is emitted in order, and then the stream flows.
StreamResume(i) ==
    /\ ops[i].pc = "done"
    /\ ops[i].result = "stream"
    /\ ~ops[i].stream.resumed
    /\ LET o == ops[i]
           st == [o.stream EXCEPT !.resumed = TRUE]
           st1 == IF st.paused
                  THEN DeliverAll(o, [st EXCEPT !.paused = FALSE, !.buffered = <<>>,
                                                !.endBuffered = FALSE],
                                  st.buffered)
                  ELSE st
       IN  ops' = [ops EXCEPT ![i].stream =
                     IF st.paused /\ st.endBuffered THEN OnEnd(o, st1) ELSE st1]
    /\ UNCHANGED <<ctorOpts, _loggedIn, _authInfo, _headers, _clientsToClose, __api,
                   openClients, nCloses, succeeded>>

\* ------------------------------------------------- listTags, getManifest

\* A response of the tags or manifests endpoint as _afterCall sees it.
\* err.message is the text restify makes of the body; contentType is
\* res.headers['content-type'].
ApiRes(err, statusCode, manifest) ==
    [err |-> err, statusCode |-> statusCode, manifest |-> manifest,
     contentType |-> "application/json; charset=utf-8",
     message |-> IF err = Absent THEN Absent ELSE "{\"errors\":[]}"]

\* A 404 whose body is a page of HTML.
HtmlNotFound ==
    [ApiRes("NotFoundError404", 404, NoManifest) EXCEPT
        !.contentType = "text/html; charset=utf-8",
        !.message = "<html>404 page not found</html>"]

\* res.headers['content-type'].split(';')[0] on the content types drawn.
ContentTypeBase(contentType) ==
    CASE contentType = "application/json; charset=utf-8" -> "application/json"
      [] contentType = "text/html; charset=utf-8" -> "text/html"
      [] OTHER -> contentType

\* _sanitizeErr(err, req, res, errmsg), as the message of the error it
\* returns; res is the response the error came with.  No operation of the
\* client calls it.
_sanitizeErr(res, errmsg) ==
    IF res.statusCode = 404 /\ Truthy(res.contentType)
       /\ ContentTypeBase(res.contentType) # "application/json"
    THEN (IF Truthy(errmsg) THEN errmsg ELSE "not found")
    ELSE res.message

\* The call stage of a pipeline, run after doLogin has succeeded: listTags
\* and getManifest send their request through the shared _api client with
\* this._headers; a blob operation makes its first makeReq.
CallStage(i) ==
    /\ ops[i].pc = "call"
    /\ IF ops[i].kind \in ApiKinds
       THEN /\ __api' = TRUE
            /\ _clientsToClose' = IF __api THEN _clientsToClose
                                  ELSE _clientsToClose \cup {ApiClient}
            /\ openClients' = IF __api THEN openClients
                              ELSE openClients \cup {ApiClient}
            /\ ops' = [ops EXCEPT ![i].pc = "api",
                          ![i].req = Req(IF ops[i].kind = "listTags"
                                         THEN "tags" ELSE "manifests",
                                         "registry", _headers)]
       ELSE /\ MakeReq(i, ops[i], "registry", _headers)
            /\ UNCHANGED __api
    /\ UNCHANGED <<ctorOpts, _loggedIn, _authInfo, _headers, nCloses, succeeded>>

\* _afterCall of listTags and of getManifest, and the pipeline's callback.
ApiResult(i, Ress) ==
    /\ ops[i].pc = "api"
    /\ \E res \in Ress :
          LET o == ops[i]
              chk == ManifestChecks(res.manifest)
          IN  ops' = [ops EXCEPT ![i] =
                IF res.err # Absent
                THEN [o EXCEPT !.pc = "done", !.err = res.err, !.nCb = @ + 1,
                               !.errRes = <<res>>, !.errMessage = res.message]
                ELSE IF o.kind = "listTags"
                THEN [o EXCEPT !.pc = "done", !.nCb = @ + 1, !.result = "tags"]
                ELSE IF chk.how = "next"
                THEN [o EXCEPT !.pc = "done", !.err = chk.err, !.nCb = @ + 1,
                               !.manifest = res.manifest]
                ELSE IF chk.how = "throw"
                THEN [o EXCEPT !.pc = "thrown", !.err = chk.err,
                               !.manifest = res.manifest]
                ELSE [o EXCEPT !.pc = "done", !.nCb = @ + 1, !.result = "manifest",
                               !.manifest = res.manifest]]
    /\ UNCHANGED <<ctorOpts, _loggedIn, _authInfo, _headers, _clientsToClose, __api,
                   openClients, nCloses, succeeded>>

\* ------------------------------------------------------ login's callbacks

\* _afterPing of the ping made by ensureChalHeader, and what follows it.
PingResult(i, Pings) ==
    /\ ops[i].pc = "ping"
    /\ \E p \in Pings : LoginStep(i, [ops[i] EXCEPT !.pingCb = <<p>>],
                                   AfterPing(p, OptsOf(ops[i])))
    /\ UNCHANGED <<ctorOpts, _clientsToClose, __api, nCloses>>

\* The callback of _getToken's request, and what follows it.
TokenResult(i, Tokens) ==
    /\ ops[i].pc = "token"
    /\ \E t \in Tokens : LoginStep(i, [ops[i] EXCEPT !.tokenCb = <<t>>],
                                    AfterToken(t))
    /\ UNCHANGED <<ctorOpts, _clientsToClose, __api, nCloses>>

\* ----------------------------------------------------------- ping, close

\* A ping that logs in.
MutRegPing(i, o) == RegLogin(i, o)

\* RegistryClientV2.prototype.ping: the ping carries the cached authInfo.
RegPing(i, o) ==
    /\ ops' = [ops EXCEPT ![i] = [o EXCEPT !.pc = "cping"]]
    /\ openClients' = openClients \cup {<<i, "ping">>}
    /\ UNCHANGED <<_loggedIn, _authInfo, _headers, succeeded>>

\* _afterPing of the client's ping: cb(err, body, res, req).
ClientPingResult(i, Pings) ==
    /\ ops[i].pc = "cping"
    /\ ops[i].kind = "ping"
    /\ \E p \in Pings :
          ops' = [ops EXCEPT ![i] = [@ EXCEPT !.pc = "done", !.err = p.err,
                                              !.nCb = @ + 1, !.result = "res",
                                              !.pingCb = <<p>>]]
    /\ openClients' = openClients \ {<<i, "ping">>}
    /\ UNCHANGED <<ctorOpts, _loggedIn, _authInfo, _headers, _clientsToClose, __api,
                   nCloses, succeeded>>

\* A Docker-Distribution-Api-Version header is a sequence of symbols: "v2"
\* stands for the text registry/2.0, "v1" for registry/1.0, "," for a comma,
\* and " " and "tab" are whitespace.  <<>> is a missing (or empty) header.
Whitespace == {" ", "tab"}

\* header.split(/\s+/g): the pieces between the runs of whitespace, an empty
\* piece before a leading and after a trailing run included.
RECURSIVE Split(_)
Split(header) ==
    IF header = <<>> THEN << <<>> >>
    ELSE LET rest == Split(Tail(header))
         IN  IF Head(header) \in Whitespace
             THEN IF Tail(header) # <<>> /\ Head(Tail(header)) \in Whitespace
                  THEN rest
                  ELSE << <<>> >> \o rest
             ELSE << <<Head(header)>> \o rest[1] >> \o Tail(rest)

\* A supportsV2 that does not look at the status.
MutSupportsV2(p, header) ==
    /\ p.hasRes
    /\ header # <<>>
    /\ \E k \in 1 .. Len(Split(header)) : Split(header)[k] = <<"v2">>

\* The callback supportsV2 gives to ping, as the value it calls back with.
SupportsV2(p, header) ==
    /\ p.hasRes
    /\ p.statusCode \in {200, 401}
    /\ header # <<>>
    /\ \E k \in 1 .. Len(Split(header)) : Split(header)[k] = <<"v2">>

\* _afterPing of the ping of supportsV2: cb(null, true) or cb(null, false).
\* A ping without a response has no headers.
SupportsV2Result(i, Pings, Headers) ==
    /\ ops[i].pc = "cping"
    /\ ops[i].kind = "supportsV2"
    /\ \E p \in Pings, h \in Headers :
          LET header == IF p.hasRes THEN h ELSE <<>>
          IN  ops' = [ops EXCEPT ![i] =
                        [@ EXCEPT !.pc = "done", !.err = Absent, !.nCb = @ + 1,
                                  !.result = IF SupportsV2(p, header)
                                             THEN "true" ELSE "false",
                                  !.pingCb = <<p, header>>]]
    /\ openClients' = openClients \ {<<i, "ping">>}
    /\ UNCHANGED <<ctorOpts, _loggedIn, _authInfo, _headers, _clientsToClose, __api,
                   nCloses, succeeded>>

\* RegistryClientV2.prototype.close
Close ==
    /\ nCloses < MaxCloses
    /\ openClients' = openClients \ _clientsToClose
    /\ _clientsToClose' = {}
    /\ nCloses' = nCloses + 1
    /\ UNCHANGED <<ctorOpts, _loggedIn, _authInfo, _headers, __api, succeeded, ops>>

\* ------------------------------------------------------ starting operations

\* The caller starts operation i: login(opts, cb) with or without a pingRes,
\* ping(cb), or one of the pipelines, whose doLogin stage runs at once.
StartOp(i, Kinds, LoginArgs, Digests) ==
    /\ ops[i].pc = "idle"
    /\ IF i = 1 THEN TRUE ELSE ops[i - 1].pc # "idle"
    /\ \E kind \in Kinds, a \in LoginArgs, d \in Digests :
          LET o == [ops[i] EXCEPT !.kind = kind, !.afterClose = nCloses > 0,
                        !.pingRes = IF kind = "login" THEN a.pingRes ELSE NoPingRes,
                        !.pingErr = IF kind = "login" THEN a.pingErr ELSE Absent,
                        !.digest = IF kind \in BlobKinds THEN d ELSE NoDcd]
          IN  IF kind \in PingKinds THEN RegPing(i, o) ELSE RegLogin(i, o)
    /\ UNCHANGED <<ctorOpts, _clientsToClose, __api, nCloses>>


\* The caller calls login(opts, cb) of the module directly.
StartLogin(i, Opts) ==
    /\ ops[i].pc = "idle"
    /\ IF i = 1 THEN TRUE ELSE ops[i - 1].pc # "idle"
    /\ \E opts \in Opts :
          LET o == [ops[i] EXCEPT !.kind = "exports.login", !.opts = opts,
                                  !.afterClose = nCloses > 0]
          IN  LoginStep(i, o, EnsureChalHeader(opts))
    /\ UNCHANGED <<ctorOpts, _clientsToClose, __api, nCloses>>


\* ------------------------------------------------------------- the inputs

BearerChal == Chal("Bearer", [scheme |-> "https", rest |-> "auth.docker.io/token"],
                   "registry.docker.io")

BasicChal == Chal("Basic", [scheme |-> Absent, rest |-> "registry456.example.com"], Absent)

TokenRes(err, token) == [err |-> err, token |-> token]

NoLoginArgs == [pingRes |-> NoPingRes, pingErr |-> Absent]

LoginArgsOf(p) == [pingRes |-> PingResOf(p), pingErr |-> p.err]

DigestA == Digest("sha256", 3)

DigestB == Digest("sha256", 4)

\* A manifest whose one signature covers body[0:1] ++ "}" and whose digest
\* header is the hash of that payload.
GoodSig(body, n, tail) ==
    Sig("ES256", FALSE, "ok", TRUE, JsNumber(n), tail,
        BufferSlice(body, n) \o Utf8Encode(Base64UrlDecode(tail)))

GoodManifest ==
    LET body == <<123, 34>>
    IN  Manifest(1, 1, 1, TRUE, <<GoodSig(body, 1, "fQ")>>, body,
                 Digest("sha256", HashHex("sha256", <<123, 125>>)))

\* ------------------------------------------- Spec: one client, many operations

SpecCtorOpts ==
    {CtorOpts(Absent, Absent, Absent, "registry.example.com"),
     CtorOpts("alice", "secret", "tok0", "registry.example.com")}

SpecPings == {Ping200, Ping401(BearerChal)}

SpecTokens == {TokenRes(Absent, "t1"), TokenRes(Absent, "t2"),
               TokenRes("HttpError", Absent)}

SpecApiRess ==
    {HtmlNotFound,
     ApiRes(Absent, 200, GoodManifest),
     ApiRes(Absent, 200, [GoodManifest EXCEPT !.schemaVersion = 2])}

SpecBlobRess == {Res(Absent, 200, DigestA, <<>>), Res("NotFoundError404", 404, NoDcd, <<>>)}

Init == InitClient(SpecCtorOpts)

Next ==
    \/ \E i \in OpIds :
          StartOp(i, LoginKinds \cup {"ping"},
                  {NoLoginArgs, LoginArgsOf(Ping401(BearerChal))}, {DigestA})
    \/ \E i \in OpIds : PingResult(i, SpecPings)
    \/ \E i \in OpIds : TokenResult(i, SpecTokens)
    \/ \E i \in OpIds : CallStage(i)
    \/ \E i \in OpIds : ApiResult(i, SpecApiRess)
    \/ \E i \in OpIds : BlobConn(i, {Absent})
    \/ \E i \in OpIds : BlobResult(i, SpecBlobRess)
    \/ \E i \in OpIds : BlobDrain(i)
    \/ \E i \in OpIds : ClientPingResult(i, SpecPings)
    \/ Close

Spec == Init /\ [][Next]_vars


\* --------------------------------- SpecBlob: one headBlob / createBlobReadStream

\* The client of SpecBlob and SpecManifest has credentials, so that the
\* Authorization header of its requests is not empty.
OneCtorOpts == {CtorOpts("alice", "secret", Absent, "registry.example.com")}

BlobDigests == {DigestA, BareDigest("cafebabe")}

\* A 'result' event that carries an error and no response.
NoRes == Res("ECONNRESET", 0, NoDcd, <<>>)

\* The Docker-Content-Digest headers drawn: none, two digests, a value without
\* ':' and a digest of an algorithm crypto does not know.
BlobDcds == {NoDcd, DigestA, DigestB, BareDigest("cafebabe"), Digest("md0", 3)}

BlobRess ==
    {Res(Absent, st, d, <<>>) : st \in {200, 301, 302, 307}, d \in BlobDcds}
    \cup {Res("NotFoundError404", 404, NoDcd, <<>>), NoRes, BareRedirect}

InitBlob == InitClient(OneCtorOpts)

NextBlob ==
    \/ StartOp(1, BlobKinds, {NoLoginArgs}, BlobDigests)
    \/ PingResult(1, {Ping200, Ping404})
    \/ CallStage(1)
    \/ BlobConn(1, {Absent, "ConnectError"})
    \/ BlobResult(1, BlobRess)
    \/ BlobDrain(1)
    \/ Close

SpecBlob == InitBlob /\ [][NextBlob]_vars

\* ------------------------------------------------ SpecManifest: one getManifest

ByteAlphabet == {123, 34}

RECURSIVE SeqsOfLen(_, _)
SeqsOfLen(S, n) ==
    IF n = 0 THEN {<<>>} ELSE {Append(q, x) : q \in SeqsOfLen(S, n - 1), x \in S}

SeqsUpTo(S, n) == UNION {SeqsOfLen(S, k) : k \in 0 .. n}

Bodies == SeqsOfLen(ByteAlphabet, MaxBody)

\* The signatures drawn for a body: signatures that sign the payload their
\* own formatLength and formatTail cut out, and one signature for each way a
\* signature can be wrong.
SigsOf(body) ==
    LET base == GoodSig(body, MaxBody - 1, "fQ")
    IN  {GoodSig(body, n, t) : n \in {MaxBody - 1, MaxBody}, t \in {"fQ", "Cn0"}}
        \cup {GoodSig(body, MaxBody - 1, "Cn0="),
              [base EXCEPT !.alg = "none"],
              [base EXCEPT !.chain = TRUE],
              [base EXCEPT !.jwk = "bad"],
              [base EXCEPT !.jwk = "none"],
              [base EXCEPT !.protectedOk = FALSE],
              [base EXCEPT !.formatLength = JsUndefined],
              [base EXCEPT !.formatLength = JsString(<<>>)],
              [base EXCEPT !.formatLength = JsNull,
                           !.signedPayload = Utf8Encode(Base64UrlDecode("fQ"))],
              [base EXCEPT !.formatTail = Absent],
              [base EXCEPT !.signedPayload = <<0>>],
              [base EXCEPT !.formatTail = "_w",
                           !.signedPayload = BufferSlice(body, MaxBody - 1) \o <<255>>]}

\* The digest headers drawn for a manifest: none, malformed, of an unknown
\* algorithm, the hash of the reconstructed payload, and another hash.
DcdsOf(m) ==
    LET jws == _jwsFromManifest(m)
        payload == IF jws.ok THEN jws.payload ELSE m.body
        h == HashHex("sha256", payload)
    IN  {NoDcd, BareDigest("cafebabe"), Digest("md0", h), Digest("sha256", h),
         Digest("sha256", (h + 1) % 11)}

ManifestsOf(body) ==
    {Manifest(sv, ll[1], ll[2], TRUE, sigs, body, NoDcd) :
        sv \in {1, 2}, ll \in {<<1, 1>>, <<0, 0>>, <<1, 0>>},
        sigs \in SeqsUpTo(SigsOf(body), MaxSigs)}
    \cup {Manifest(1, 1, 1, FALSE, <<>>, body, NoDcd)}

\* The responses drawn for a manifest m: a 404, and m under each digest header.
ManifestRess(m) ==
    {ApiRes("NotFoundError404", 404, NoManifest)}
    \cup {ApiRes(Absent, 200, [m EXCEPT !.dcd = d]) : d \in DcdsOf(m)}

InitManifest == InitClient(OneCtorOpts)

NextManifest ==
    \/ StartOp(1, {"getManifest"}, {NoLoginArgs}, {NoDcd})
    \/ PingResult(1, {Ping200, Ping404})
    \/ CallStage(1)
    \/ /\ ops[1].pc = "api"
       /\ \E body \in Bodies : \E m \in ManifestsOf(body) : ApiResult(1, ManifestRess(m))

SpecManifest == InitManifest /\ [][NextManifest]_vars

\* ------------------------------------------ SpecStream: one createBlobReadStream

\* The digest asked for is that of the body <<7, 8>>.
StreamDigest == Digest("sha256", HashHex("sha256", <<7, 8>>))

StreamDcds == {NoDcd, StreamDigest}

\* Content-Length headers: absent, '', '1', '2', '02' and 'x'.
CLens == {<<>>, << <<>> >>, << <<1>> >>, << <<2>> >>, << <<0, 2>> >>, << <<99>> >>}

StreamRess ==
    {Res(Absent, 307, d, <<>>) : d \in StreamDcds}
    \cup {Res(Absent, 200, d, c) : d \in StreamDcds, c \in CLens}

Chunks == {<<7>>, <<8>>, <<7, 8>>}

InitStream == InitClient(OneCtorOpts)

NextStream ==
    \/ StartOp(1, {"createBlobReadStream"}, {NoLoginArgs}, {StreamDigest})
    \/ PingResult(1, {Ping200})
    \/ CallStage(1)
    \/ BlobConn(1, {Absent})
    \/ BlobResult(1, StreamRess)
    \/ BlobDrain(1)
    \/ StreamData(1, Chunks)
    \/ StreamWireEnd(1)
    \/ StreamResume(1)

SpecStream == InitStream /\ [][NextStream]_vars

\* --------------------------------------- SpecPing: ping, supportsV2 and login

AllPings == {Ping200, Ping401(BearerChal), Ping404, PingConnErr}

\* 'registry/2.0', 'registry/1.0', 'registry/1.0 registry/2.0',
\* 'registry/2.0,registry/1.0', 'registry/1.0registry/2.0' and
\* '\tregistry/2.0  registry/1.0', and no header.
ApiVersionHeaders ==
    {<<>>, <<"v2">>, <<"v1">>, <<"v1", " ", "v2">>, <<"v2", ",", "v1">>,
     <<"v1", "v2">>, <<"tab", "v2", " ", " ", "v1">>}

InitPing == InitClient(SpecCtorOpts)

NextPing ==
    \/ \E i \in OpIds : StartOp(i, {"ping", "supportsV2", "login"}, {NoLoginArgs}, {NoDcd})
    \/ \E i \in OpIds : PingResult(i, SpecPings)
    \/ \E i \in OpIds : TokenResult(i, {TokenRes(Absent, "t1"), TokenRes("HttpError", Absent)})
    \/ \E i \in OpIds : ClientPingResult(i, AllPings)
    \/ \E i \in OpIds : SupportsV2Result(i, AllPings, ApiVersionHeaders)

SpecPing == InitPing /\ [][NextPing]_vars

\* ------------------------------------- SpecLogin: one call of login(opts, cb)

\* The WWW-Authenticate headers a registry sends: Bearer challenges in two
\* spellings whose realm has no scheme, http, https or another scheme; Basic
\* challenges in two spellings; a scheme login does not know; and a header
\* the parser rejects.
BearerChals ==
    {Chal(s, [scheme |-> rs, rest |-> "auth.example.com/token"], "registry.example.com") :
        s \in {"Bearer", "bearer"}, rs \in {Absent, "https", "http", "ftp"}}

BasicChals == {BasicChal, [BasicChal EXCEPT !.scheme = "BASIC"]}

DigestChal == Chal("Digest", [scheme |-> Absent, rest |-> "registry456.example.com"], Absent)

LoginChals == BearerChals \cup BasicChals \cup {DigestChal, GarbledChal}

LoginPings ==
    {Ping200, Ping404, PingConnErr} \cup {Ping401(c) : c \in LoginChals \cup {NoChal}}

\* opts.pingRes and opts.pingErr of a caller that has pinged before: the
\* response of a 401 comes with its error, the response of a 200 without.
EarlierPingErr == "UnauthorizedError401:earlier ping"

LoginFnArgs ==
    {NoLoginArgs, [pingRes |-> PingResOf(Ping200), pingErr |-> Absent]}
    \cup {[pingRes |-> PingResOf(Ping401(c)), pingErr |-> EarlierPingErr] :
             c \in LoginChals \cup {NoChal}}

PullScope == "repository:library/busybox:pull"

LoginFnOptsSet ==
    {LoginFnOpts(c[1], c[2], a, scope, insecure, host) :
        c \in {<<Absent, Absent>>, <<"alice", "secret">>},
        a \in LoginFnArgs,
        scope \in {Absent, PullScope},
        insecure \in BOOLEAN,
        host \in {"quay.io", "registry.example.com"}}

LoginTokens == SpecTokens \cup {TokenRes(Absent, Absent)}

InitLogin == InitClient(OneCtorOpts)

NextLogin ==
    \/ StartLogin(1, LoginFnOptsSet)
    \/ PingResult(1, LoginPings)
    \/ TokenResult(1, LoginTokens)

SpecLogin == InitLogin /\ [][NextLogin]_vars

\* Every HTTP request login issues is answered in the end, by a response or
\* by an error: the callbacks of the ping and of the token request run.
SpecLoginFair ==
    /\ SpecLogin
    /\ WF_vars(PingResult(1, LoginPings))
    /\ WF_vars(TokenResult(1, LoginTokens))


\* ------------------------------------------------------------ properties

\* C1: every manifest that getManifest hands to its callback without an error
\* has schemaVersion 1, as many history entries as layers and at least one
\* layer, and each of its signatures verifies with its own key over the
\* payload of the manifest.
C1_DeliveredManifestIsValid ==
    \A i \in OpIds :
        (ops[i].kind = "getManifest" /\ ops[i].pc = "done" /\ ops[i].err = Absent) =>
            LET m == ops[i].manifest
                jws == _jwsFromManifest(m)
            IN  /\ ops[i].result = "manifest"
                /\ m.schemaVersion = 1
                /\ m.nLayers = m.nHistory
                /\ m.nLayers >= 1
                /\ jws.ok
                /\ \A k \in 1 .. Len(m.signatures) :
                      JwsVerify(m.signatures[k], jws.payload)

\* A manifest with two signatures has been delivered.
C1_TwoSignaturesDelivered ==
    /\ ops[1].pc = "done"
    /\ ops[1].result = "manifest"
    /\ Len(ops[1].manifest.signatures) >= 2

\* C2: of the requests of a blob operation only the first, sent to the
\* registry, carries the client's Authorization header; a request sent to a
\* redirect target carries none.
C2_OnlyFirstRequestAuthorized ==
    \A i \in OpIds :
        ops[i].req.endpoint = "blobs" =>
            /\ ops[i].req.url = "registry" =>
                  (ops[i].numRedirs = 1 /\ ops[i].req.authorization = _headers)
            /\ ops[i].req.url = "location" =>
                  (ops[i].numRedirs > 1 /\ ops[i].req.authorization = NoHeader)

\* The second redirect of a client that has an Authorization header is under way.
C2_SecondRedirectRequested ==
    /\ ops[1].req.url = "location"
    /\ ops[1].numRedirs = 3
    /\ Len(ops[1].ress) = 2
    /\ _headers # NoHeader

\* C3: the response chain a blob operation hands to its callback, with or
\* without an error, never holds more than 4 responses.
C3_ChainAtMostFour ==
    \A i \in OpIds : Len(ops[i].ress) <= 4

\* A blob operation has ended on the redirect budget with its longest chain.
C3_LongestChainReturned ==
    /\ ops[1].pc = "done"
    /\ ops[1].err = "DownloadError:maximum number of redirects"
    /\ Len(ops[1].ress) = 3

\* C4: the 'maximum number of redirects' error is raised only when a redirect
\* arrives after 3 redirects have been followed (numRedirs counts the requests
\* made, so numRedirs - 1 redirects have been followed).
C4_ErrorOnlyAfterThreeRedirects ==
    \A i \in OpIds :
        (ops[i].pc = "done" /\ ops[i].err = "DownloadError:maximum number of redirects")
            => ops[i].numRedirs - 1 >= 3

\* C5: in a response chain returned without an error the last response has a
\* non-3xx status and every earlier one is a 302 or a 307.
C5_SuccessChainEndsNon3xx ==
    \A i \in OpIds :
        (ops[i].pc = "done" /\ ops[i].result \in {"ress", "stream"}) =>
            LET n == Len(ops[i].ress)
            IN  /\ n >= 1
                /\ ops[i].ress[n].statusCode \notin 300 .. 399
                /\ \A k \in 1 .. n - 1 : ops[i].ress[k].statusCode \in {302, 307}

\* C6: once a login has succeeded, the cached authInfo and the Authorization
\* header derived from it do not change again, whatever the interleaving.
C6_AuthInfoImmutableAfterLogin ==
    [][_loggedIn => (_authInfo' = _authInfo /\ _headers' = _headers)]_vars

\* C7: the three cached fields are never partly updated: when _loggedIn is
\* true, _authInfo is the authInfo of one login that succeeded and the
\* Authorization header is the one derived from it; before that the fields
\* are as the constructor left them.
C7_CachedFieldsOfOneLogin ==
    /\ _loggedIn =>
          /\ _authInfo \in succeeded
          /\ _headers = _authHeaderFromAuthInfo(_authInfo)
    /\ ~_loggedIn =>
          /\ _authInfo = NullAuthInfo
          /\ succeeded = {}

\* Two racing logins have both succeeded, with different results.
C7_TwoLoginsSucceeded ==
    /\ _loggedIn
    /\ Cardinality(succeeded) >= 2
    /\ \A i \in OpIds : ops[i].pc \notin {"idle", "ping", "token"}

\* C8: a login called after a login has succeeded issues no ping and no token
\* request, and the client's login calls back at once without an error.
C8_LaterLoginIsNoOp ==
    \A i \in OpIds :
        ops[i].afterLogin =>
            /\ ops[i].pc \notin {"ping", "token"}
            /\ ops[i].tokenReq = <<>>
            /\ <<i, "ping">> \notin openClients
            /\ <<i, "token">> \notin openClients
            /\ ops[i].kind = "login" =>
                  (ops[i].pc = "done" /\ ops[i].err = Absent /\ ops[i].nCb = 1)

\* The client's login has been called after a login had succeeded.
C8_LoginCalledAgain ==
    \E i \in OpIds :
        /\ ops[i].kind = "login"
        /\ ops[i].afterLogin
        /\ ops[i].pc = "done"
        /\ _loggedIn

\* C9: no request to a tags, manifests or blobs endpoint is issued unless a
\* login has succeeded; a pipeline whose login fails calls back once with the
\* login's error and has issued no request.
C9_NoRequestWithoutLogin ==
    \A i \in OpIds :
        /\ ops[i].req # NoReq => succeeded # {}
        /\ (ops[i].kind \in LoginKinds \ {"login"} /\ ops[i].pc = "done"
            /\ ops[i].req = NoReq) =>
              (ops[i].err # Absent /\ ops[i].nCb = 1 /\ ops[i].result = Absent)
        /\ ops[i].err = "UnauthorizedError:token auth attempt failed" =>
              (ops[i].pc = "done" /\ ops[i].req = NoReq)

\* A pipeline has ended on the error of its login while nothing is logged in.
C9_PipelineEndedOnLoginError ==
    \E i \in OpIds :
        /\ ops[i].kind \in LoginKinds \ {"login"}
        /\ ops[i].pc = "done"
        /\ ops[i].err = "UnauthorizedError:token auth attempt failed"
        /\ succeeded = {}

\* C10: an operation started after close() calls back with an error.
C10_ErrorAfterClose ==
    \A i \in OpIds :
        (ops[i].afterClose /\ ops[i].kind \in LoginKinds /\ ops[i].pc = "done")
            => ops[i].err # Absent

\* C11: when close() returns, every HTTP client created for this client before
\* the call is closed (the API client, the client of each blob request, the
\* clients of pings and token fetches in flight) and _clientsToClose is empty.
C11_CloseClosesEveryClient ==
    [][nCloses' = nCloses + 1 => (openClients' = {} /\ _clientsToClose' = {})]_vars

\* C12: a getManifest whose response fails a check (JWS extraction, digest,
\* signature verification, schema version, history length, no layers) ends by
\* calling the callback exactly once, with that error and without a manifest.
C12_FailedCheckCallsBack ==
    \A i \in OpIds :
        (ops[i].kind = "getManifest" /\ ops[i].manifest # NoManifest
         /\ ManifestChecks(ops[i].manifest).how # "ok") =>
            /\ ops[i].pc = "done"
            /\ ops[i].nCb = 1
            /\ ops[i].err = ManifestChecks(ops[i].manifest).err
            /\ ops[i].result = Absent

\* C13: a manifest with a signature whose alg is "none", at whatever position
\* and among whatever other signatures, is never delivered as a success.
C13_AlgNoneNeverDelivered ==
    \A i \in OpIds :
        (ops[i].kind = "getManifest" /\ ops[i].manifest # NoManifest
         /\ \E k \in 1 .. Len(ops[i].manifest.signatures) :
               ops[i].manifest.signatures[k].alg = "none") =>
            /\ ops[i].result # "manifest"
            /\ ops[i].err # Absent

\* A manifest whose second signature has alg "none", after a signature that
\* verifies, has been rejected for its algorithm.
C13_NoneAfterGoodSignature ==
    /\ ops[1].pc = "done"
    /\ ops[1].err = "ManifestVerificationError:disallowed JWS signature algorithm"
    /\ Len(ops[1].manifest.signatures) = 2
    /\ ops[1].manifest.signatures[1].alg # "none"
    /\ ops[1].manifest.signatures[2].alg = "none"
    /\ ops[1].manifest.schemaVersion = 1

\* C14: createBlobReadStream takes the Docker-Content-Digest header from the
\* first response of the chain: when _headOrGetBlob has returned a chain
\* without error and that header is present and cannot be parsed or differs
\* from the requested digest, the call fails with BadDigest and hands over no
\* stream; otherwise the stream is handed over.
C14_DigestHeaderOfFirstResponse ==
    \A i \in OpIds :
        LET o == ops[i]
            n == Len(o.ress)
        IN  (o.kind = "createBlobReadStream" /\ o.pc = "done" /\ n >= 1
             /\ o.ress[n].err = Absent /\ o.ress[n].statusCode \notin {302, 307}) =>
                LET first == o.ress[1].dcd
                    bad == first.present
                           /\ (~_parseDockerContentDigest(first).ok \/ first # o.digest)
                IN  /\ bad => /\ o.err \in
                                   {"BadDigestError:could not parse Docker-Content-Digest header",
                                    "BadDigestError:header does not match given digest"}
                              /\ o.result # "stream"
                              /\ ~o.stream.listening
                    /\ ~bad => (o.err = Absent /\ o.result = "stream")

\* After a redirect whose response carried another digest than the requested
\* one, the final response carried the requested digest, and the call failed.
C14_FirstDiffersLastMatches ==
    /\ ops[1].kind = "createBlobReadStream"
    /\ ops[1].pc = "done"
    /\ Len(ops[1].ress) = 2
    /\ ops[1].ress[1].dcd = DigestB
    /\ ops[1].ress[2].dcd = ops[1].digest
    /\ ops[1].ress[2].statusCode = 200
    /\ ops[1].err = "BadDigestError:header does not match given digest"

\* C19: when a blob request is answered with an HTTP error status, headBlob
\* and createBlobReadStream call back with the error and with the chain of
\* the responses received so far, whose last entry is the error response;
\* createBlobReadStream hands over no stream.
C19_HttpErrorEndsChain ==
    \A i \in OpIds :
        LET o == ops[i]
            n == Len(o.ress)
        IN  (o.kind \in BlobKinds /\ o.pc = "done" /\ o.req # NoReq
             /\ o.err = "NotFoundError404") =>
                /\ o.nCb = 1
                /\ o.cbRess
                /\ n >= 1
                /\ n = o.numRedirs
                /\ o.ress[n].statusCode = 404
                /\ \A k \in 1 .. n - 1 : o.ress[k].statusCode \in {302, 307}
                /\ o.result = Absent
                /\ ~o.stream.open

\* The first request of a createBlobReadStream was answered 404.
C19_FirstRequestNotFound ==
    /\ ops[1].kind = "createBlobReadStream"
    /\ ops[1].pc = "done"
    /\ ops[1].err = "NotFoundError404"
    /\ Len(ops[1].ress) = 1

\* The bytes of a sequence of chunks.
RECURSIVE Flatten(_)
Flatten(chunks) == IF chunks = <<>> THEN <<>> ELSE Head(chunks) \o Flatten(Tail(chunks))

\* The Content-Length header of the final response is a string of digits.
NumericCLen(o) ==
    LET c == o.ress[Len(o.ress)].cLen
    IN  c # <<>> /\ c[1] # <<>> /\ \A k \in 1 .. Len(c[1]) : c[1][k] \in 0 .. 9

HashDiffers(o) ==
    /\ o.ress[1].dcd.present
    /\ HashHex(o.ress[1].dcd.algorithm, o.stream.received) # o.ress[1].dcd.hex

C17_NothingFlowsBeforeResume ==
    \A i \in OpIds :
        LET o == ops[i]
            st == o.stream
        IN  (o.kind = "createBlobReadStream" /\ st.open) =>
                /\ o.pc = "done" => st.paused \/ st.resumed
                /\ ~st.resumed =>
                      (st.numBytes = 0 /\ st.hashed = <<>> /\ ~st.ended /\ st.emitted = {})
                /\ st.numBytes + Len(Flatten(st.buffered)) = Len(st.received)
                /\ st.ended =>
                      /\ st.wireEnded
                      /\ st.numBytes = Len(st.received)
                      /\ o.ress[1].dcd.present => st.hashed = st.received

\* The whole body and its end arrived before the caller resumed the stream,
\* and are held back: nothing has been counted.
C17_BodyHeldBack ==
    /\ ops[1].pc = "done"
    /\ ops[1].result = "stream"
    /\ ~ops[1].stream.resumed
    /\ Len(ops[1].stream.buffered) = 2
    /\ ops[1].stream.endBuffered

\* The header holds registry/2.0 as a token of its own: the text stands
\* between whitespace or the ends of the header.
HasV2Token(header) ==
    \E k \in 1 .. Len(header) :
        /\ header[k] = "v2"
        /\ k = 1 \/ header[k - 1] \in {" ", "tab"}
        /\ k = Len(header) \/ header[k + 1] \in {" ", "tab"}

\* C18: supportsV2 calls back with (no error, true) exactly when the ping
\* produced a response of status 200 or 401 whose
\* Docker-Distribution-Api-Version header holds the token registry/2.0, and
\* with (no error, false) in every other case.
C18_SupportsV2Verdict ==
    \A i \in OpIds :
        (ops[i].kind = "supportsV2" /\ ops[i].pc = "done") =>
            LET p == ops[i].pingCb[1]
                header == ops[i].pingCb[2]
                v2 == p.hasRes /\ p.statusCode \in {200, 401} /\ HasV2Token(header)
            IN  /\ ops[i].err = Absent
                /\ ops[i].nCb = 1
                /\ ops[i].result = IF v2 THEN "true" ELSE "false"

\* supportsV2 has answered false to a 404 whose header names registry/2.0.
C18_NotFoundWithV2Header ==
    \E i \in OpIds :
        /\ ops[i].kind = "supportsV2"
        /\ ops[i].pc = "done"
        /\ ops[i].pingCb[1].statusCode = 404
        /\ ops[i].pingCb[2] = <<"v1", " ", "v2">>
        /\ ops[i].result = "false"

\* C20: a step of the client's ping or supportsV2, whatever the ping's
\* response, leaves _loggedIn, _authInfo and the Authorization header alone.
C20_PingNeverLogsIn ==
    [][\A i \in OpIds :
          ((ops[i].kind \in PingKinds \/ ops'[i].kind \in PingKinds)
           /\ ops'[i] # ops[i]) =>
              (_loggedIn' = _loggedIn /\ _authInfo' = _authInfo /\ _headers' = _headers)
      ]_vars

\* A ping and a supportsV2 have been answered 200 and nothing is logged in.
C20_PingAnsweredNotLoggedIn ==
    /\ ~_loggedIn
    /\ _authInfo = NullAuthInfo
    /\ \E i, j \in OpIds :
          /\ ops[i].kind = "ping" /\ ops[i].pc = "done"
          /\ ops[i].pingCb[1].statusCode = 200
          /\ ops[j].kind = "supportsV2" /\ ops[j].pc = "done"
          /\ ops[j].pingCb[1].statusCode = 200


\* C21: once the client is logged in, its Authorization header is the one of
\* the cached authInfo: Bearer <token> for a bearer authInfo, Basic
\* <base64(username:password)> for a basic authInfo with both credentials,
\* and no header for a basic authInfo without credentials.
C21_HeaderRebuiltFromAuthInfo ==
    _loggedIn =>
        /\ _authInfo.type \in {"bearer", "basic"}
        /\ _authInfo.type = "bearer" =>
               _headers = [scheme |-> "Bearer", cred |-> _authInfo.token]
        /\ (_authInfo.type = "basic" /\ _authInfo.username # Absent
              /\ _authInfo.password # Absent) =>
               _headers = [scheme |-> "Basic",
                           cred |-> Base64(_authInfo.username \o ":"
                                           \o _authInfo.password)]
        /\ (_authInfo.type = "basic"
              /\ (_authInfo.username = Absent \/ _authInfo.password = Absent)) =>
               _headers = NoHeader

\* A client built with username, password and a token has logged in through
\* the token realm, and its header is the Bearer header of the new token.
C21_BearerReplacedCtorHeader ==
    /\ _loggedIn
    /\ ctorOpts.token = "tok0"
    /\ _authInfo.type = "bearer"
    /\ _headers = [scheme |-> "Bearer", cred |-> "t1"]


\* C22: an operation that fails with a 404 whose content type is not
\* application/json hands its caller an error with the message "not found";
\* any other error keeps its message.
C22_NotFoundMessageSanitized ==
    \A i \in OpIds :
        (ops[i].pc = "done" /\ ops[i].errRes # <<>>) =>
            ops[i].errMessage = _sanitizeErr(ops[i].errRes[1], Absent)


\* A call of login(opts, cb) that has been made.
LoginFnCalled(o) == o.kind = "exports.login" /\ o.pc # "idle"

\* C23: login makes no ping when opts.pingRes carries a WWW-Authenticate
\* header, and its outcome is then the outcome of that header (a header that
\* does not parse ends it with the parse error); when opts.pingRes is absent
\* or has no such header, login makes exactly one ping.
C23_PingOnlyWithoutChallenge ==
    \A i \in OpIds :
        LET o == ops[i]
            carried == o.opts.pingRes.given /\ o.opts.pingRes.chal.present
        IN  LoginFnCalled(o) =>
              /\ carried =>
                    /\ o.nPings = 0
                    /\ o.pingCb = <<>>
                    /\ o.pc \in {"token", "done"}
                    /\ ~o.opts.pingRes.chal.parses =>
                          o.err = "UnauthorizedError:could not parse WWW-Authenticate"
              /\ ~carried => o.nPings = 1

\* A login given the response of an earlier 401 without the header has
\* pinged once, been answered with a Bearer challenge, and waits for its token.
C23_PingedOnceForMissingHeader ==
    /\ LoginFnCalled(ops[1])
    /\ ops[1].opts.pingRes.given
    /\ ~ops[1].opts.pingRes.chal.present
    /\ ops[1].nPings = 1
    /\ ops[1].pc = "token"


\* C24: when login's ping is answered 200, login is over with that answer:
\* it has succeeded, no token was requested, and the authInfo handed to the
\* caller is of type basic with opts.username and opts.password, which gives
\* no Authorization header when none were supplied.
C24_Ping200IsBasicSuccess ==
    \A i \in OpIds :
        LET o == ops[i]
        IN  (LoginFnCalled(o) /\ o.pingCb # <<>> /\ o.pingCb[1].statusCode = 200
             /\ o.pingCb[1].err = Absent) =>
              /\ o.pc = "done"
              /\ o.nCb = 1
              /\ o.err = Absent
              /\ o.result = "Login Succeeded"
              /\ o.nTokenReqs = 0
              /\ o.tokenCb = <<>>
              /\ o.authInfo.type = "basic"
              /\ o.authInfo.username = o.opts.username
              /\ o.authInfo.password = o.opts.password
              /\ o.authInfo.token = Absent
              /\ o.opts.username = Absent =>
                    _authHeaderFromAuthInfo(o.authInfo) = NoHeader

\* A login with credentials whose ping was answered 200.
C24_BasicWithCredentials ==
    /\ LoginFnCalled(ops[1])
    /\ ops[1].pingCb = <<Ping200>>
    /\ ops[1].pc = "done"
    /\ ops[1].authInfo = [type |-> "basic", username |-> "alice",
                          password |-> "secret", token |-> Absent]


\* C25: when login's ping is answered 401 without a WWW-Authenticate header
\* and the Host is not quay.io, login ends with an Unauthorized error and no
\* token request; when the ping fails in any other way than a 401, login
\* ends with the ping's error itself.
C25_PingFailuresEndLogin ==
    \A i \in OpIds :
        LET o == ops[i]
            p == o.pingCb[1]
            is401 == p.hasRes /\ p.statusCode = 401
        IN  (LoginFnCalled(o) /\ o.pingCb # <<>> /\ p.err # Absent) =>
              /\ (is401 /\ ~p.chal.present /\ o.opts.host # "quay.io") =>
                    /\ o.pc = "done"
                    /\ o.nCb = 1
                    /\ o.err \in UnauthorizedErrors
                    /\ o.nTokenReqs = 0
                    /\ o.authInfo = NullAuthInfo
              /\ ~is401 =>
                    /\ o.pc = "done"
                    /\ o.nCb = 1
                    /\ o.err = p.err
                    /\ o.nTokenReqs = 0
                    /\ o.authInfo = NullAuthInfo

\* A registry other than quay.io answered the ping 401 without the header.
C25_MissingHeaderRejected ==
    /\ LoginFnCalled(ops[1])
    /\ ops[1].pingCb = <<Ping401(NoChal)>>
    /\ ops[1].opts.host = "registry.example.com"
    /\ ops[1].pc = "done"
    /\ ops[1].err = "UnauthorizedError:missing WWW-Authenticate header"


\* C26: when login's ping to Host quay.io is answered 401 without a
\* WWW-Authenticate header, login requests a token from the realm
\* https://quay.io/v2/auth with service quay.io and does not fail for the
\* missing header; for another host no token is requested, and when the 401
\* carries a header the token request, if any, goes to the realm and service
\* of that header.
C26_QuayChallengeSynthesized ==
    \A i \in OpIds :
        LET o == ops[i]
            p == o.pingCb[1]
        IN  (LoginFnCalled(o) /\ o.pingCb # <<>> /\ p.hasRes /\ p.statusCode = 401) =>
              /\ (~p.chal.present /\ o.opts.host = "quay.io") =>
                    /\ o.nTokenReqs = 1
                    /\ Len(o.tokenReq) = 1
                    /\ o.tokenReq[1].scheme = "https"
                    /\ o.tokenReq[1].rest = "quay.io/v2/auth"
                    /\ o.tokenReq[1].service = "quay.io"
                    /\ o.err # "UnauthorizedError:missing WWW-Authenticate header"
              /\ (~p.chal.present /\ o.opts.host # "quay.io") =>
                    /\ o.nTokenReqs = 0
                    /\ o.tokenReq = <<>>
              /\ (p.chal.present /\ o.tokenReq # <<>>) =>
                    /\ o.tokenReq[1].rest = p.chal.realm.rest
                    /\ o.tokenReq[1].service = p.chal.service
                    /\ o.tokenReq[1].rest # "quay.io/v2/auth"

\* quay.io answered 401 without the header, and login got a token from
\* quay.io's realm.
C26_QuayTokenObtained ==
    /\ LoginFnCalled(ops[1])
    /\ ops[1].opts.host = "quay.io"
    /\ ops[1].pingCb = <<Ping401(NoChal)>>
    /\ ops[1].pc = "done"
    /\ ops[1].tokenReq # <<>>
    /\ ops[1].tokenReq[1].rest = "quay.io/v2/auth"
    /\ ops[1].authInfo = [type |-> "bearer", username |-> Absent,
                          password |-> Absent, token |-> "t1"]


\* The header a registry has challenged the login of operation o with:
\* the one of opts.pingRes, or else the one of the 401 its ping was answered.
Carried(o) == o.opts.pingRes.given /\ o.opts.pingRes.chal.present

ChalSeen(o) ==
    IF Carried(o) THEN <<o.opts.pingRes.chal>>
    ELSE IF o.pingCb # <<>> /\ o.pingCb[1].hasRes /\ o.pingCb[1].statusCode = 401
            /\ o.pingCb[1].chal.present
         THEN <<o.pingCb[1].chal>>
         ELSE <<>>

\* The ping error that goes with that header.
PingErrSeen(o) == IF Carried(o) THEN o.opts.pingErr ELSE o.pingCb[1].err

\* C27: when the scheme of the challenge is Basic in any spelling, login ends
\* with the ping error (opts.pingErr when the challenge came with
\* opts.pingRes, the error of its own ping otherwise), requests no token and
\* hands over no authInfo.
C27_BasicChallengeFailsWithPingErr ==
    \A i \in OpIds :
        LET o == ops[i]
        IN  (LoginFnCalled(o) /\ ChalSeen(o) # <<>> /\ ChalSeen(o)[1].parses
             /\ ChalSeen(o)[1].scheme \in {"Basic", "BASIC", "basic"}) =>
              /\ o.pc = "done"
              /\ o.nCb = 1
              /\ o.err = PingErrSeen(o)
              /\ o.err # Absent
              /\ o.nTokenReqs = 0
              /\ o.tokenReq = <<>>
              /\ o.result = Absent
              /\ o.authInfo = NullAuthInfo

\* A login whose own ping was answered with a challenge spelled BASIC, after
\* an earlier 401 without the header, has ended with the error of its ping.
C27_UpperCaseBasicRejected ==
    /\ LoginFnCalled(ops[1])
    /\ ops[1].opts.pingErr = EarlierPingErr
    /\ ops[1].pingCb # <<>>
    /\ ops[1].pingCb[1].chal.scheme = "BASIC"
    /\ ops[1].pc = "done"
    /\ ops[1].err = "UnauthorizedError401"


\* C28: when the scheme of the challenge is Bearer in any spelling and its
\* realm is one the token fetcher asks, login issues one token request, for
\* the realm and the service of the challenge, with the one scope opts.scope
\* when that is not empty and with no scope otherwise.  When the realm
\* answers with a token login succeeds with the authInfo bearer{token};
\* when it answers with an error or without a token login fails with the
\* token fetcher's error and hands over no authInfo.  For a realm of
\* another scheme the token fetcher calls back with its error at once.
C28_BearerChallengeFetchesToken ==
    \A i \in OpIds :
        LET o == ops[i]
            c == ChalSeen(o)[1]
            r == o.tokenReq[1]
            t == o.tokenCb[1]
        IN  (LoginFnCalled(o) /\ ChalSeen(o) # <<>> /\ c.parses
             /\ c.scheme \in {"Bearer", "BEARER", "bearer"}) =>
            IF c.realm.scheme \notin {Absent, "http", "https"}
            THEN
              /\ o.pc = "done"
              /\ o.nCb = 1
              /\ o.nTokenReqs = 0
              /\ o.err = "Error:unsupported scheme for WWW-Authenticate realm"
              /\ o.authInfo = NullAuthInfo
            ELSE
              /\ o.nTokenReqs = 1
              /\ Len(o.tokenReq) = 1
              /\ r.rest = c.realm.rest
              /\ r.service = c.service
              /\ r.scope = IF o.opts.scope = Absent THEN <<>> ELSE <<o.opts.scope>>
              /\ o.pc \in {"token", "done"}
              /\ o.pc = "token" => o.tokenCb = <<>> /\ o.nCb = 0
              /\ o.pc = "done" =>
                    /\ Len(o.tokenCb) = 1
                    /\ o.nCb = 1
                    /\ (t.err = Absent /\ t.token # Absent) =>
                          /\ o.err = Absent
                          /\ o.result = "Login Succeeded"
                          /\ o.authInfo = [type |-> "bearer", username |-> Absent,
                                           password |-> Absent, token |-> t.token]
                    /\ t.err # Absent =>
                          /\ o.err = "UnauthorizedError:token auth attempt failed"
                          /\ o.authInfo = NullAuthInfo
                    /\ (t.err = Absent /\ t.token = Absent) =>
                          /\ o.err = "UnauthorizedError:no token in the response"
                          /\ o.authInfo = NullAuthInfo

\* A login without a scope, challenged with "bearer", has been given the
\* token t2 on a request that names no scope.
C28_LowerCaseBearerNoScope ==
    /\ LoginFnCalled(ops[1])
    /\ ops[1].opts.scope = Absent
    /\ ChalSeen(ops[1]) # <<>>
    /\ ChalSeen(ops[1])[1].scheme = "bearer"
    /\ ops[1].pc = "done"
    /\ ops[1].tokenReq # <<>>
    /\ ops[1].tokenReq[1].scope = <<>>
    /\ ops[1].authInfo.token = "t2"


\* C29: when the challenge does not parse, or parses with a scheme that is
\* neither Basic nor Bearer in any spelling, login ends with an Unauthorized
\* error (the one for an unsupported auth scheme in the second case),
\* requests no token and hands over no authInfo.
C29_UnusableChallengeRejected ==
    \A i \in OpIds :
        LET o == ops[i]
            c == ChalSeen(o)[1]
            unknown == c.parses /\ c.scheme \notin {"Basic", "BASIC", "basic",
                                                    "Bearer", "BEARER", "bearer"}
        IN  (LoginFnCalled(o) /\ ChalSeen(o) # <<>> /\ (~c.parses \/ unknown)) =>
              /\ o.pc = "done"
              /\ o.nCb = 1
              /\ o.err \in UnauthorizedErrors
              /\ unknown => o.err = "UnauthorizedError:unsupported auth scheme"
              /\ ~c.parses => o.err = "UnauthorizedError:could not parse WWW-Authenticate"
              /\ o.nTokenReqs = 0
              /\ o.tokenReq = <<>>
              /\ o.result = Absent
              /\ o.authInfo = NullAuthInfo

\* A login whose ping was answered with a Digest challenge has ended with
\* the error for an unsupported auth scheme.
C29_DigestChallengeRejected ==
    /\ LoginFnCalled(ops[1])
    /\ ops[1].pingCb = <<Ping401(DigestChal)>>
    /\ ops[1].pc = "done"
    /\ ops[1].err = "UnauthorizedError:unsupported auth scheme"
    /\ ops[1].nTokenReqs = 0


\* C30: the token fetcher asks a realm without a scheme over https, or over
\* http when opts.insecure is set; for a realm whose scheme is neither http
\* nor https it issues no request and login ends with an Unauthorized error.
C30_RealmSchemeHandled ==
    \A i \in OpIds :
        LET o == ops[i]
            c == ChalSeen(o)[1]
        IN  (LoginFnCalled(o) /\ ChalSeen(o) # <<>> /\ c.parses
             /\ c.scheme \in {"Bearer", "BEARER", "bearer"}) =>
              /\ c.realm.scheme = Absent =>
                    /\ Len(o.tokenReq) = 1
                    /\ o.tokenReq[1].scheme = IF o.opts.insecure THEN "http" ELSE "https"
                    /\ o.tokenReq[1].rest = c.realm.rest
              /\ c.realm.scheme \notin {Absent, "http", "https"} =>
                    /\ o.pc = "done"
                    /\ o.nTokenReqs = 0
                    /\ o.tokenReq = <<>>
                    /\ o.err \in UnauthorizedErrors


\* A getManifest whose request was answered without an HTTP error, so that
\* _jwsFromManifest has run on the manifest it received.
ManifestReceived(o) ==
    o.kind = "getManifest" /\ o.manifest # NoManifest /\ o.manifest.hasSignatures

\* C31: when a signature of the manifest received has no number as its
\* formatLength, or two signatures differ in formatLength or in the decoded
\* formatTail, _jwsFromManifest fails with InvalidContent, which getManifest
\* reports; no JWS is made of such a manifest.
C31_JwsNeedsAgreeingNumericFormat ==
    \A i \in OpIds :
        LET o == ops[i]
            sigs == o.manifest.signatures
        IN  (ManifestReceived(o)
             /\ \/ \E k \in 1 .. Len(sigs) : sigs[k].formatLength.type # "number"
                \/ \E j, k \in 1 .. Len(sigs) :
                      \/ sigs[j].formatLength # sigs[k].formatLength
                      \/ Base64UrlDecode(sigs[j].formatTail)
                            # Base64UrlDecode(sigs[k].formatTail)) =>
              /\ o.err \in JwsInvalidContentErrors
              /\ o.result # "manifest"


\* C32: for every manifest received of which _jwsFromManifest makes a JWS,
\* the payload is the first formatLength bytes of the raw body followed by
\* the bytes formatTail stands for in base64url, and it is the same whatever
\* the schema version and the layers of the manifest.
C32_PayloadIsPrefixPlusTail ==
    \A i \in OpIds :
        LET o == ops[i]
            m == o.manifest
            jws == _jwsFromManifest(m)
            n == ToNumber(m.signatures[1].formatLength)[1]
            prefix == SubSeq(m.body, 1, IF n < Len(m.body) THEN n ELSE Len(m.body))
        IN  (ManifestReceived(o) /\ jws.ok) =>
              /\ jws.payload = prefix \o Base64UrlBytes(m.signatures[1].formatTail)
              /\ \A sv \in {1, 2}, nl \in {0, 1}, nh \in {0, 1} :
                    _jwsFromManifest([m EXCEPT !.schemaVersion = sv, !.nLayers = nl,
                                               !.nHistory = nh]).payload = jws.payload


C34_BlobCallbackExactlyOnce ==
    \A i \in OpIds :
        ops[i].kind \in BlobKinds =>
            /\ ops[i].nCb <= 1
            /\ ops[i].pc \notin {"idle", "ping", "token", "call", "conn", "result", "drain"}
                  => ops[i].nCb = 1


\* The pipeline of the login of operation o has ended with next(true): its
\* ping was answered 200, or the token realm has answered with a token.
EarlyAbort(o) ==
    \/ o.pingCb # <<>> /\ o.pingCb[1].err = Absent
    \/ o.tokenCb # <<>> /\ o.tokenCb[1].err = Absent /\ o.tokenCb[1].token # Absent

LoginFails(i) ==
    /\ ops[i].kind \in LoginKinds \cup {"none"}
    /\ ops[i].pc \in {"idle", "ping", "token"}
    /\ ops'[i].kind \in LoginKinds
    /\ ops'[i].pc = "done"
    /\ ops'[i].err # Absent
    /\ ops'[i].req = NoReq

\* C36: a step in which a login of the client ends with an error changes
\* none of _loggedIn, _authInfo and the cached Authorization header, also
\* when another login has succeeded meanwhile.
C36_FailedLoginLeavesCache ==
    [][(\E i \in OpIds : LoginFails(i))
          => UNCHANGED <<_loggedIn, _authInfo, _headers>>]_vars

\* Two logins were under way together; one has got its token and the other
\* has failed at the token realm, and the client is logged in with the token.
C36_FailedBesideSucceeded ==
    /\ _loggedIn
    /\ _authInfo.type = "bearer"
    /\ \E i, j \in OpIds :
          /\ i # j
          /\ ops[i].pc = "done" /\ ops[i].err = "UnauthorizedError:token auth attempt failed"
          /\ ~ops[i].afterLogin
          /\ ops[j].kind = "login" /\ ops[j].pc = "done" /\ ops[j].err = Absent
          /\ ~ops[j].afterLogin
          /\ ops[j].tokenCb # <<>>


\* The Authorization header the constructor made from opts.token,
\* opts.username and opts.password.
CtorHeader ==
    _authHeaderFromAuthInfo(
        [type |-> "ctor", token |-> ctorOpts.token,
         username |-> ctorOpts.username, password |-> ctorOpts.password])

\* The Authorization headers of the logins that have succeeded.
SucceededHeaders == {_authHeaderFromAuthInfo(a) : a \in succeeded}

\* C37: a request to the registry for tags, for a manifest or for a blob
\* carries the Authorization header of the authInfo of a login of this client
\* that has succeeded; it carries the header made by the constructor only
\* when a login has produced the same header.
C37_RegistryRequestsCarryLoginHeader ==
    \A i \in OpIds :
        (ops[i].req # NoReq /\ ops[i].req.url = "registry"
         /\ ops[i].req.endpoint \in {"tags", "manifests", "blobs"}) =>
            /\ ops[i].req.authorization \in SucceededHeaders
            /\ ops[i].req.authorization = CtorHeader
                  => CtorHeader \in SucceededHeaders

\* A manifest is requested with the header of the token of the login, by a
\* client whose constructor had made another header.
C37_ManifestRequestedWithToken ==
    \E i \in OpIds :
        /\ ops[i].pc = "api"
        /\ ops[i].req.endpoint = "manifests"
        /\ ops[i].req.authorization \in SucceededHeaders
        /\ CtorHeader # NoHeader
        /\ CtorHeader \notin SucceededHeaders


\* The errors of the BadDigest class that createBlobReadStream hands to its
\* callback or emits on its stream.
BlobBadDigestErrors ==
    {"BadDigestError:could not parse Docker-Content-Digest header",
     "BadDigestError:header does not match given digest",
     "BadDigestError:Docker-Content-Digest"}

\* The get of operation o has been answered, finally by a 200, and its first
\* response has no Docker-Content-Digest header.
AnsweredWithoutDigest(o) ==
    /\ o.kind = "createBlobReadStream"
    /\ o.pc = "done"
    /\ o.ress # <<>>
    /\ o.ress[Len(o.ress)].err = Absent
    /\ o.ress[Len(o.ress)].statusCode = 200
    /\ ~o.ress[1].dcd.present

\* C38: when the first response of a blob GET has no Docker-Content-Digest
\* header, createBlobReadStream hands over the stream and verifies no digest:
\* nothing is hashed, no BadDigest error is handed to the callback or emitted
\* on the stream, and the stream ends without an error when the count of
\* bytes received equals the Content-Length or there is no Content-Length.
C38_NoHeaderNoDigestCheck ==
    \A i \in OpIds :
        LET o == ops[i]
            c == o.ress[Len(o.ress)].cLen
        IN  AnsweredWithoutDigest(o) =>
                /\ o.err = Absent
                /\ o.result = "stream"
                /\ o.stream.hashed = <<>>
                /\ o.stream.emitted \cap BlobBadDigestErrors = {}
                /\ (o.stream.ended /\ c = <<>>) => o.stream.emitted = {}
                /\ (o.stream.ended /\ NumericCLen(o)
                    /\ DecimalValue(c[1]) = Len(o.stream.received)) => o.stream.emitted = {}

\* A redirect without the header led to a 200 that has the header of the
\* digest asked for; the stream has ended after two bytes of another hash,
\* as many as announced, without an error.
C38_OtherBytesEndedClean ==
    /\ AnsweredWithoutDigest(ops[1])
    /\ Len(ops[1].ress) = 2
    /\ ops[1].ress[2].dcd = StreamDigest
    /\ ops[1].ress[2].cLen = << <<2>> >>
    /\ ops[1].stream.ended
    /\ Len(ops[1].stream.received) = 2
    /\ ops[1].stream.received # <<7, 8>>
    /\ ops[1].stream.emitted = {}


\* The errors of the BadDigest class that the verification of a manifest's
\* digest header throws.
ManifestBadDigestErrors ==
    {"BadDigestError:missing Docker-Content-Digest header",
     "BadDigestError:could not parse Docker-Content-Digest header",
     "BadDigestError:Docker-Content-Digest header error",
     "BadDigestError:Docker-Content-Digest"}

\* The digest header of manifest m is missing, has no ':', names an algorithm
\* the hash factory does not know, or has another hex than the hash of payload.
DigestHeaderWrong(m, payload) ==
    \/ ~m.dcd.present
    \/ ~m.dcd.colon
    \/ m.dcd.algorithm \notin SupportedAlgorithms
    \/ m.dcd.hex # HashHex(m.dcd.algorithm, payload)

\* C39: a manifest response whose Docker-Content-Digest header is missing,
\* has no ':', names an unsupported algorithm or has another hex than the
\* hash of the payload reconstructed from the signatures is not delivered,
\* and getManifest calls back once with a BadDigest error.
C39_ManifestNeedsMatchingDigest ==
    \A i \in OpIds :
        LET o == ops[i]
            jws == _jwsFromManifest(o.manifest)
        IN  (ManifestReceived(o) /\ jws.ok /\ DigestHeaderWrong(o.manifest, jws.payload)) =>
                /\ o.pc = "done"
                /\ o.nCb = 1
                /\ o.result = Absent
                /\ o.err \in ManifestBadDigestErrors
                /\ ~o.manifest.dcd.present
                      => o.err = "BadDigestError:missing Docker-Content-Digest header"

\* A manifest whose signature verifies and whose schema is in order came
\* without the header and was rejected.
C39_GoodManifestWithoutHeader ==
    LET o == ops[1]
        jws == _jwsFromManifest(o.manifest)
    IN  /\ ManifestReceived(o)
        /\ jws.ok
        /\ ~o.manifest.dcd.present
        /\ _verifyJws(jws) = Absent
        /\ SchemaCheck(o.manifest) = Absent
        /\ o.pc = "done"
        /\ o.err = "BadDigestError:missing Docker-Content-Digest header"


\* The manifest getManifest received has no signatures array, or an empty one.
Unsigned(o) ==
    /\ o.kind = "getManifest"
    /\ o.manifest # NoManifest
    /\ (~o.manifest.hasSignatures \/ o.manifest.signatures = <<>>)

\* C40: a manifest without a signatures array or with an empty one is never
\* delivered: getManifest calls back once, with an error and without the
\* manifest; a manifest delivered has at least one signature.
C40_UnsignedNeverDelivered ==
    \A i \in OpIds :
        LET o == ops[i]
        IN  /\ Unsigned(o) =>
                  /\ o.pc = "done"
                  /\ o.nCb = 1
                  /\ o.err # Absent
                  /\ o.result = Absent
            /\ (o.kind = "getManifest" /\ o.result = "manifest") =>
                  (o.manifest.hasSignatures /\ Len(o.manifest.signatures) >= 1)

\* A manifest with an empty signatures array, a schema in order and the
\* digest header of its body has been rejected.
C40_EmptySignaturesRejected ==
    LET o == ops[1]
    IN  /\ Unsigned(o)
        /\ o.manifest.hasSignatures
        /\ SchemaCheck(o.manifest) = Absent
        /\ o.manifest.dcd = Digest("sha256", HashHex("sha256", o.manifest.body))
        /\ o.pc = "done"
        /\ o.err = "TypeError:new Buffer(undefined)"

=============================================================================
